---- MODULE Spec2Model ----
(***************************************************************************)
(* The derived-query slot of salsa (src/derived/slot.rs): the per-key      *)
(* memoization cell with its InProgress rendezvous, validation, backdating,*)
(* change probe (maybe_changed_since), sweep / evict and panic guard.      *)
(*                                                                         *)
(* Runtimes are threads, each with a call stack of frames (read /          *)
(* read_upgrade and maybe_changed_since call each other recursively        *)
(* through the query function and through validation).  The runtime        *)
(* (revision counter, durability table, wait-for graph, active-query       *)
(* bookkeeping) and the input storage are collaborators of the slot that   *)
(* live outside slot.rs.                                                   *)
(***************************************************************************)
EXTENDS Integers, Sequences, FiniteSets, TLC

VARIABLES
    revision,       \* Runtime::current_revision()
    last_changed,   \* Runtime::last_changed_revision(d), per durability
    input,          \* input storage: per input key, <<>> or <<stamped value>>
    state,          \* Slot::state, per derived key: the QueryState
    lock,           \* the RwLock around Slot::state: writer and readers
    stack,          \* per runtime: call stack of read / maybe_changed_since frames
    ret,            \* per runtime: value returned by the call that just finished
    mode,           \* per runtime: "run" or "unwind" (std::thread::panicking())
    mailbox,        \* per runtime: the Receiver it blocks on: <<>>, <<v>>, closed
    blocked,        \* the runtime's wait-for graph: per runtime <<>> or <<edge>>
    prog,           \* the query functions: per derived key its sequence of reads
    reads,          \* history: stamped values returned by Slot::read per key in this revision
    failed,         \* assertions of slot.rs that were hit
    counter,        \* tests/lru.rs: the static COUNTER of get_volatile
    observed,       \* tests/lru.rs: the reads since set_lru_capacity, key and value
    lru,            \* the LRU list of the query: the keys it references
    cap             \* the LRU capacity of the query, 0 when the LRU is disabled

\* what the LRU tests add to the database
harness == <<counter, observed, lru, cap>>

vars == <<revision, last_changed, input, state, lock, stack, ret, mode,
          mailbox, blocked, prog, reads, failed, harness>>

----------------------------------------------------------------------------
(* Bounds of the model *)

NumRuntimes == 2

MaxRevision == 4

MaxRevisionConc == 3

MaxRevisionChain == 3

MaxDurability == 1

LruCap == 1

MaxLruReads == 4

MaxValue == 1

Runtimes == 1..NumRuntimes

Revisions == 1..MaxRevision

Durabilities == 0..MaxDurability

Values == 0..MaxValue

InputKeys == {"x", "y"}

DerivedKeys == {"A", "B", "C", "D"}

\* Durability::LOW
LOW == 0

\* Revision::start()
START == 1

\* the runtime of the database itself (the others are its snapshots)
MAIN == CHOOSE t \in Runtimes : \A u \in Runtimes : t <= u

----------------------------------------------------------------------------
(* Data *)

StampedValue(v, d, c) == [value |-> v, durability |-> d, changed_at |-> c]

NotComputed == [tag |-> "NotComputed"]

\* QueryState::in_progress(id)
in_progress(id) == [tag |-> "InProgress", id |-> id, waiting |-> {}]

Memoized(memo) == [tag |-> "Memoized", memo |-> memo]

NoInputs == [tag |-> "NoInputs", inputs |-> <<>>]

Untracked == [tag |-> "Untracked", inputs |-> <<>>]

Tracked(deps) == [tag |-> "Tracked", inputs |-> deps]

Memo(value, verified_at, changed_at, durability, inputs) ==
    [value |-> value, verified_at |-> verified_at, changed_at |-> changed_at,
     durability |-> durability, inputs |-> inputs]

Max(a, b) == IF a >= b THEN a ELSE b

Min(a, b) == IF a <= b THEN a ELSE b

----------------------------------------------------------------------------
(* The runtime and the input storage, as far as the slot consumes them *)

\* Runtime::last_changed_revision(durability)
last_changed_revision(d) == last_changed[d]

\* the active query that execute_query_implementation pushes
ActiveQuery ==
    [value |-> 0, changed_at |-> START, durability |-> MaxDurability,
     deps |-> <<>>, tracked |-> TRUE]

InSeq(x, s) == \E j \in 1..Len(s) : s[j] = x

\* the value the model's query functions compute from the values they read
Combine(a, b) == (a + b) % (MaxValue + 1)

\* Runtime::report_query_read: one more dependency of the active query
add_read(acc, key, sv) ==
    [value |-> Combine(acc.value, sv.value),
     changed_at |-> Max(acc.changed_at, sv.changed_at),
     durability |-> Min(acc.durability, sv.durability),
     deps |-> IF acc.tracked /\ ~InSeq(key, acc.deps)
              THEN Append(acc.deps, key) ELSE acc.deps,
     tracked |-> acc.tracked]

\* Runtime::report_untracked_read: the dependencies become unknown
add_untracked_read(acc, v, revision_now) ==
    [value |-> Combine(acc.value, v), changed_at |-> revision_now,
     durability |-> LOW, deps |-> <<>>, tracked |-> FALSE]

RECURSIVE Reaches(_, _, _)
\* does runtime `from` (transitively) wait for runtime `to`?
Reaches(from, to, n) ==
    IF from = to THEN TRUE
    ELSE IF n = 0 \/ blocked[from] = <<>> THEN FALSE
    ELSE Reaches(blocked[from][1].on, to, n - 1)

\* Runtime::try_block_on: refuses the edge that would close a cycle
try_block_on(t, other_id) == ~Reaches(other_id, t, NumRuntimes)

\* Runtime::unblock_queries_blocked_on_self(database_key)
unblock_queries_blocked_on_self(t, k) ==
    [u \in Runtimes |->
        IF blocked[u] # <<>> /\ blocked[u][1].on = t /\ blocked[u][1].key = k
        THEN <<>> ELSE blocked[u]]

\* the input storage's maybe_changed_since
input_maybe_changed_since(i, rev) == input[i][1].changed_at > rev

----------------------------------------------------------------------------
(* Memo *)

\* check_durability that trusts no durability
check_durability_never(memo) == FALSE

\* Memo::check_durability
check_durability(memo) == last_changed_revision(memo.durability) <= memo.verified_at

\* has_untracked_input that overlooks the Untracked inputs
has_untracked_input_never(memo) == FALSE

\* Memo::has_untracked_input
has_untracked_input(memo) == memo.inputs.tag = "Untracked"

\* mark_value_as_verified that stamps changed_at instead of verified_at
mark_value_as_changed(memo, revision_now) ==
    [memo EXCEPT !.changed_at = revision_now]

\* Memo::mark_value_as_verified: the memo it leaves behind
mark_value_as_verified(memo, revision_now) ==
    [memo EXCEPT !.verified_at = revision_now]

\* Memo::mark_value_as_verified: the stamped value it returns
verified_value(memo) ==
    StampedValue(memo.value[1], memo.durability, memo.changed_at)

\* MP::memoized_value_eq
memoized_value_eq(old_value, value) == old_value = value

\* MP::should_memoize_value: the storage of D keeps the dependencies of a
\* query without its value, the storage of every other query keeps the value
should_memoize_value(k) == k # "D"

----------------------------------------------------------------------------
(* Slot *)

\* register_with_in_progress_thread that only knows the cycle within one runtime
register_without_try_block_on(t, other_id) ==
    IF other_id = t THEN "Err" ELSE "Ok"

\* Slot::register_with_in_progress_thread: can this runtime wait for other_id?
register_with_in_progress_thread(t, other_id) ==
    IF other_id = t THEN "Err"
    ELSE IF ~try_block_on(t, other_id) THEN "Err"
    ELSE "Ok"

\* probe with the InProgress arm missing: a state in progress counts as absent
probe_without_in_progress(st, t, revision_now) ==
    IF st.tag = "Memoized" /\ st.memo.value # <<>> /\ st.memo.verified_at = revision_now
    THEN [tag |-> "UpToDate",
          value |-> <<StampedValue(st.memo.value[1], st.memo.durability,
                                   st.memo.changed_at)>>]
    ELSE [tag |-> "StaleOrAbsent", value |-> <<>>]

\* probe that does not compare verified_at with the current revision
probe_ignores_revision(st, t, revision_now) ==
    CASE st.tag = "NotComputed" -> [tag |-> "StaleOrAbsent", value |-> <<>>]
      [] st.tag = "InProgress" ->
            IF register_with_in_progress_thread(t, st.id) = "Ok"
            THEN [tag |-> "Block", value |-> <<>>]
            ELSE [tag |-> "Cycle", value |-> <<>>]
      [] st.tag = "Memoized" ->
            IF st.memo.value # <<>>
            THEN [tag |-> "UpToDate",
                  value |-> <<StampedValue(st.memo.value[1], st.memo.durability,
                                           st.memo.changed_at)>>]
            ELSE [tag |-> "StaleOrAbsent", value |-> <<>>]

\* Slot::probe: what the state says to runtime t at revision_now
probe(st, t, revision_now) ==
    CASE st.tag = "NotComputed" -> [tag |-> "StaleOrAbsent", value |-> <<>>]
      [] st.tag = "InProgress" ->
            IF register_with_in_progress_thread(t, st.id) = "Ok"
            THEN [tag |-> "Block", value |-> <<>>]
            ELSE [tag |-> "Cycle", value |-> <<>>]
      [] st.tag = "Memoized" ->
            IF st.memo.value # <<>> /\ st.memo.verified_at = revision_now
            THEN [tag |-> "UpToDate",
                  value |-> <<StampedValue(st.memo.value[1], st.memo.durability,
                                           st.memo.changed_at)>>]
            ELSE [tag |-> "StaleOrAbsent", value |-> <<>>]

\* read_upgrade without lines 219-237: the result is never backdated
backdate_never(old_memo, result) == result.changed_at

\* backdating without the test on the durability
backdate_any_durability(old_memo, result) ==
    IF /\ old_memo # <<>>
       /\ old_memo[1].value # <<>>
       /\ memoized_value_eq(old_memo[1].value[1], result.value)
    THEN old_memo[1].changed_at
    ELSE result.changed_at

\* read_upgrade, lines 219-237: the changed_at of the result after backdating
backdate(old_memo, result) ==
    IF /\ old_memo # <<>>
       /\ old_memo[1].value # <<>>
       /\ result.durability >= old_memo[1].durability
       /\ memoized_value_eq(old_memo[1].value[1], result.value)
    THEN old_memo[1].changed_at
    ELSE result.changed_at

\* read_upgrade, line 233: assert!(old_memo.changed_at <= result.changed_at)
backdate_assert(old_memo, result) ==
    \/ old_memo = <<>>
    \/ old_memo[1].value = <<>>
    \/ ~(result.durability >= old_memo[1].durability)
    \/ ~memoized_value_eq(old_memo[1].value[1], result.value)
    \/ old_memo[1].changed_at <= result.changed_at

\* every tracked execution gets a Tracked input set, even one that read nothing
memo_inputs_never_no_inputs(result) ==
    IF ~result.tracked THEN Untracked ELSE Tracked(result.deps)

\* read_upgrade, lines 257-269: the inputs of the new memo
memo_inputs(result) ==
    IF ~result.tracked THEN Untracked
    ELSE IF result.deps = <<>> THEN NoInputs
    ELSE Tracked(result.deps)

\* the new memo stamped as changed in revision_now, whenever its inputs changed
new_memo_changed_now(k, old_memo, result, revision_now) ==
    Memo(IF should_memoize_value(k) THEN <<result.value>> ELSE <<>>,
         revision_now, revision_now, result.durability, memo_inputs(result))

\* the new memo stamped with the revision of its inputs instead of revision_now
new_memo_verified_at_inputs(k, old_memo, result, revision_now) ==
    Memo(IF should_memoize_value(k) THEN <<result.value>> ELSE <<>>,
         result.changed_at, backdate(old_memo, result), result.durability,
         memo_inputs(result))

\* read_upgrade, lines 239-278: the memo written after an execution
new_memo(k, old_memo, result, revision_now) ==
    Memo(IF should_memoize_value(k) THEN <<result.value>> ELSE <<>>,
         revision_now, backdate(old_memo, result), result.durability,
         memo_inputs(result))

\* the stamped value of the execution as it is before backdating
new_value_before_backdating(old_memo, result) ==
    StampedValue(result.value, result.durability, result.changed_at)

\* read_upgrade, lines 239-243: the stamped value returned after an execution
new_value(old_memo, result) ==
    StampedValue(result.value, result.durability, backdate(old_memo, result))

\* evict without the test of has_untracked_input
evict_memo_always(memo) == [memo EXCEPT !.value = <<>>]

\* evict that clears the inputs along with the value
evict_memo_and_inputs(memo) ==
    IF has_untracked_input(memo) THEN memo
    ELSE [memo EXCEPT !.value = <<>>, !.inputs = NoInputs]

\* Slot::evict on a memo
evict_memo(memo) ==
    IF has_untracked_input(memo) THEN memo ELSE [memo EXCEPT !.value = <<>>]

\* sweep that discards without looking at verified_at or at the inputs
sweep_memoized_whatever(st, revision_now, strategy) ==
    IF strategy.discard_what = "Values"
    THEN Memoized([st.memo EXCEPT !.value = <<>>])
    ELSE NotComputed

\* Slot::sweep on a Memoized state
sweep_memoized(st, revision_now, strategy) ==
    CASE strategy.discard_if = "Never" -> st
      [] strategy.discard_if = "Outdated" /\ st.memo.verified_at = revision_now -> st
      [] /\ strategy.discard_if = "Always"
         /\ has_untracked_input(st.memo)
         /\ st.memo.verified_at = revision_now -> st
      [] OTHER ->
            CASE strategy.discard_what = "Nothing" -> st
              [] strategy.discard_what = "Values" ->
                    Memoized([st.memo EXCEPT !.value = <<>>])
              [] strategy.discard_what = "Everything" -> NotComputed

\* Slot::sweep: does the match reach an unreachable!() (lines 446 and 460)?
\* Only the Memoized arm looks at the strategy, discard_what only in its last arm
sweep_unreachable(st, revision_now, strategy) ==
    /\ st.tag = "Memoized"
    /\ \/ strategy.discard_if = "Never"
       \/ /\ strategy.discard_what = "Nothing"
          /\ ~(strategy.discard_if = "Outdated" /\ st.memo.verified_at = revision_now)
          /\ ~(/\ strategy.discard_if = "Always"
               /\ has_untracked_input(st.memo)
               /\ st.memo.verified_at = revision_now)

\* overwrite_placeholder that leaves the marker where there is no memo
overwrite_placeholder_keeps_marker(memo) ==
    IF memo # <<>> THEN Memoized(memo[1]) ELSE in_progress(MAIN)

\* PanicGuard::overwrite_placeholder: the state it writes
overwrite_placeholder(memo) ==
    IF memo # <<>> THEN Memoized(memo[1]) ELSE NotComputed

----------------------------------------------------------------------------
(* Call stacks *)

NoRet == [kind |-> "none", sv |-> StampedValue(0, LOW, START), b |-> FALSE]

RetOk(sv) == [kind |-> "ok", sv |-> sv, b |-> FALSE]

\* Err(CycleDetected)
RetCycle == [kind |-> "cycle", sv |-> StampedValue(0, LOW, START), b |-> FALSE]

RetPanic == [kind |-> "panic", sv |-> StampedValue(0, LOW, START), b |-> FALSE]

RetBool(b) == [kind |-> "bool", sv |-> StampedValue(0, LOW, START), b |-> b]

\* a frame of Slot::read (via = "read"), of Slot::read_upgrade called by
\* maybe_changed_since (via = "mcs"), of maybe_changed_since (fn = "mcs"), or
\* of try_fetch (fn = "fetch"); events are the kinds of the events the call has
\* handed to salsa_event
Frame(fn, k, pc, via, rev) ==
    [fn |-> fn, key |-> k, pc |-> pc, via |-> via, rev |-> rev,
     memo |-> <<>>, i |-> 1, acc |-> ActiveQuery, out |-> <<>>,
     mc |-> FALSE, inputs |-> <<>>, events |-> <<>>]

Top(t) == stack[t][Len(stack[t])]

At(t, fn, pc) ==
    /\ mode[t] = "run"
    /\ stack[t] # <<>>
    /\ Top(t).fn = fn
    /\ Top(t).pc = pc

SetTop(t, f) == [stack EXCEPT ![t] = [@ EXCEPT ![Len(@)] = f]]

Push(t, f, g) == [stack EXCEPT ![t] = Append([@ EXCEPT ![Len(@)] = f], g)]

Pop(t) == [stack EXCEPT ![t] = SubSeq(@, 1, Len(@) - 1)]

\* the positions of read_upgrade at which its PanicGuard is alive
GuardPcs == {"validate", "validate_iter", "validate_ret", "exec", "exec_ret",
             "proceed", "overwrite", "drop"}

HoldsGuard(t, k) ==
    \E j \in 1..Len(stack[t]) :
        /\ stack[t][j].fn = "read"
        /\ stack[t][j].key = k
        /\ stack[t][j].pc \in GuardPcs

Unlocked == [w |-> {}, r |-> {}]

ReadLocked(k, t) == [lock EXCEPT ![k].r = @ \cup {t}]

WriteLocked(k, t) == [lock EXCEPT ![k].w = {t}]

Released(k, t) ==
    [lock EXCEPT ![k] = [w |-> @.w \ {t}, r |-> @.r \ {t}]]

\* the history of the stamped values Slot::read returned in this revision
Noted(f, r) ==
    IF f.fn = "read" /\ f.via = "read" /\ r.kind = "ok"
    THEN [reads EXCEPT ![f.key] = @ \cup {r.sv}]
    ELSE reads

\* the call on top of the stack returns r to its caller; of a result that
\* leaves the query system only its kind is kept
Return(t, r) ==
    /\ stack' = Pop(t)
    /\ ret' = [ret EXCEPT ![t] = IF Len(stack[t]) = 1 THEN [r EXCEPT !.sv = NoRet.sv] ELSE r]
    /\ reads' = Noted(Top(t), r)

\* the call on top of the stack panics: the runtime starts to unwind
Panic(t, r) ==
    /\ mode' = [mode EXCEPT ![t] = "unwind"]
    /\ ret' = [ret EXCEPT ![t] = r]
    /\ UNCHANGED <<stack, reads>>

----------------------------------------------------------------------------
(* The query functions *)

\* the reads a query function may make: an input, a derived query, "*" an
\* untracked (volatile) read, "!" a panic when the value read so far is MaxValue
Programs ==
    { [A |-> <<"B">>, B |-> <<"y">>],
      [A |-> <<"B", "x">>, B |-> <<"y", "!">>],
      [A |-> <<"B">>, B |-> <<"A">>],
      [A |-> <<"B">>, B |-> <<"*">>],
      [A |-> <<"x", "B">>, B |-> <<>>] }

\* the query functions the runtimes run concurrently
ConcPrograms ==
    { [A |-> <<"B">>, B |-> <<"y", "!">>],
      [A |-> <<"B">>, B |-> <<"A">>],
      [A |-> <<"B">>, B |-> <<"y", "*">>] }

\* a chain of three derived queries
ChainPrograms == { [C |-> <<"A">>, A |-> <<"B">>, B |-> <<"y", "!">>] }

\* a new database with the query functions of `programs` and LRU capacity c
InitWithCapacity(programs, c) ==
    /\ revision = START
    /\ last_changed = [d \in Durabilities |-> START]
    /\ input = [i \in InputKeys |-> <<>>]
    /\ state = [k \in DerivedKeys |-> NotComputed]
    /\ lock = [k \in DerivedKeys |-> Unlocked]
    /\ stack = [t \in Runtimes |-> <<>>]
    /\ ret = [t \in Runtimes |-> NoRet]
    /\ mode = [t \in Runtimes |-> "run"]
    /\ mailbox = [t \in Runtimes |-> <<>>]
    /\ blocked = [t \in Runtimes |-> <<>>]
    /\ prog \in programs
    /\ reads = [k \in DerivedKeys |-> {}]
    /\ failed = {}
    /\ counter = 0
    /\ observed = <<>>
    /\ lru = <<>>
    /\ cap = c

\* a new database: the LRU is disabled until set_lru_capacity is called
InitWith(programs) == InitWithCapacity(programs, 0)

Init == InitWith(Programs)

InitChain == InitWith(ChainPrograms)

InitConc == InitWith(ConcPrograms)

Idle(t) == stack[t] = <<>> /\ mode[t] = "run"

\* the derived queries of the database
Queries == DOMAIN prog

----------------------------------------------------------------------------
(* The input storage: set *)

\* set_with_durability(i, v, d): a new revision; only between queries
Set(i, v, d, max) ==
    /\ \A t \in Runtimes : Idle(t)
    /\ revision < max
    /\ revision' = revision + 1
    /\ input' = [input EXCEPT ![i] = <<StampedValue(v, d, revision + 1)>>]
    /\ last_changed' =
          [dd \in Durabilities |->
              IF dd <= (IF input[i] = <<>> THEN LOW ELSE input[i][1].durability)
              THEN revision + 1 ELSE last_changed[dd]]
    /\ reads' = [k \in DerivedKeys |-> {}]
    /\ UNCHANGED <<state, lock, stack, ret, mode, mailbox, blocked, prog, harness, failed>>

----------------------------------------------------------------------------
(* Slot::read and Slot::read_upgrade *)

\* a runtime calls Slot::read(k) from outside any query
StartRead(t, k) ==
    /\ Idle(t)
    /\ stack' = [stack EXCEPT ![t] = <<Frame("read", k, "start", "read", revision)>>]
    /\ ret' = [ret EXCEPT ![t] = NoRet]
    /\ UNCHANGED <<revision, last_changed, input, state, lock, mode, mailbox,
                   blocked, prog, harness, reads, failed>>

\* read, line 135: self.state.read()
ReadLock(t) ==
    /\ At(t, "read", "start")
    /\ lock[Top(t).key].w = {}
    /\ lock' = ReadLocked(Top(t).key, t)
    /\ stack' = SetTop(t, [Top(t) EXCEPT !.pc = "probe"])
    /\ UNCHANGED <<revision, last_changed, input, state, ret, mode, mailbox,
                   blocked, prog, harness, reads, failed>>

\* the InProgress arm of probe that goes and blocks with the lock still held
Wait_holding_the_lock(t, k, pc) ==
    /\ state' = [state EXCEPT ![k].waiting = @ \cup {t}]
    /\ blocked' = [blocked EXCEPT ![t] = <<[on |-> state[k].id, key |-> k]>>]
    /\ lock' = lock
    /\ stack' = SetTop(t, [Top(t) EXCEPT !.pc = pc])
    /\ UNCHANGED <<ret, reads, mode, mailbox>>

\* the InProgress arm of probe that goes and blocks without its sink in the
\* waiters list
Wait_without_sink(t, k, pc) ==
    /\ state' = state
    /\ blocked' = [blocked EXCEPT ![t] = <<[on |-> state[k].id, key |-> k]>>]
    /\ lock' = Released(k, t)
    /\ stack' = SetTop(t, [Top(t) EXCEPT !.pc = pc])
    /\ UNCHANGED <<ret, reads, mode, mailbox>>

\* the InProgress arm of probe with Ok(rx): push the sink, add the wait-for
\* edge, release the lock, go and block in recv
Wait(t, k, pc) ==
    /\ state' = [state EXCEPT ![k].waiting = @ \cup {t}]
    /\ blocked' = [blocked EXCEPT ![t] = <<[on |-> state[k].id, key |-> k]>>]
    /\ lock' = Released(k, t)
    /\ stack' = SetTop(t, [Top(t) EXCEPT !.pc = pc])
    /\ UNCHANGED <<ret, reads, mode, mailbox>>

\* read, lines 135-138: probe under the shared lock
ReadProbe(t) ==
    /\ At(t, "read", "probe")
    /\ LET k == Top(t).key
           p == probe(state[k], t, revision)
       IN  CASE p.tag = "UpToDate" ->
                    /\ Return(t, RetOk(p.value[1]))
                    /\ lock' = Released(k, t)
                    /\ UNCHANGED <<state, blocked, mode, mailbox>>
             [] p.tag = "Cycle" ->
                    /\ Return(t, RetCycle)
                    /\ lock' = Released(k, t)
                    /\ UNCHANGED <<state, blocked, mode, mailbox>>
             [] p.tag = "Block" -> Wait(t, k, "recv")
             [] p.tag = "StaleOrAbsent" ->
                    /\ stack' = SetTop(t, [Top(t) EXCEPT !.pc = "upgrade"])
                    /\ lock' = Released(k, t)
                    /\ UNCHANGED <<state, blocked, ret, reads, mode, mailbox>>
    /\ UNCHANGED <<revision, last_changed, input, prog, harness, failed>>

\* read_upgrade, line 163: self.state.write()
UpgradeLock(t) ==
    /\ At(t, "read", "upgrade")
    /\ lock[Top(t).key] = Unlocked
    /\ lock' = WriteLocked(Top(t).key, t)
    /\ stack' = SetTop(t, [Top(t) EXCEPT !.pc = "probe_w"])
    /\ UNCHANGED <<revision, last_changed, input, state, ret, mode, mailbox,
                   blocked, prog, harness, reads, failed>>

\* read_upgrade, lines 163-175: probe under the exclusive lock; a stale or
\* absent state is replaced by InProgress and its memo moves into the guard
UpgradeProbe(t) ==
    /\ At(t, "read", "probe_w")
    /\ LET k == Top(t).key
           p == probe(state[k], t, revision)
       IN  CASE p.tag = "UpToDate" ->
                    /\ Return(t, RetOk(p.value[1]))
                    /\ lock' = Released(k, t)
                    /\ UNCHANGED <<state, blocked, mode, mailbox>>
             [] p.tag = "Cycle" ->
                    /\ Return(t, RetCycle)
                    /\ lock' = Released(k, t)
                    /\ UNCHANGED <<state, blocked, mode, mailbox>>
             [] p.tag = "Block" -> Wait(t, k, "recv")
             [] p.tag = "StaleOrAbsent" ->
                    /\ state' = [state EXCEPT ![k] = in_progress(t)]
                    /\ stack' = SetTop(t, [Top(t) EXCEPT
                            !.pc = "validate",
                            !.memo = IF state[k].tag = "Memoized"
                                     THEN <<state[k].memo>> ELSE <<>>])
                    /\ lock' = Released(k, t)
                    /\ UNCHANGED <<blocked, ret, reads, mode, mailbox>>
    /\ UNCHANGED <<revision, last_changed, input, prog, harness, failed>>

\* probe, line 334: rx.recv().unwrap_or_else(|_| db.on_propagated_panic())
Recv(t) ==
    /\ At(t, "read", "recv")
    /\ mailbox[t] # <<>>
    /\ mailbox' = [mailbox EXCEPT ![t] = <<>>]
    /\ IF mailbox[t][1].kind = "ok"
       THEN Return(t, RetOk(mailbox[t][1].sv)) /\ UNCHANGED mode
       ELSE Panic(t, RetPanic)
    /\ UNCHANGED <<revision, last_changed, input, state, lock, blocked, prog, harness, failed>>

\* validate_memoized_value that takes Untracked inputs for no inputs
validate_untracked_as_no_inputs(memo) ==
    IF memo.value = <<>> THEN "None"
    ELSE IF check_durability(memo) \/ memo.inputs.tag # "Tracked" THEN "Some"
    ELSE "Walk"

\* Memo::validate_memoized_value up to the walk over the inputs:
\* "None" (re-execute), "Some" (verified), "Walk" (ask the tracked inputs)
validate_memoized_value(memo) ==
    IF memo.value = <<>> THEN "None"
    ELSE IF check_durability(memo) THEN "Some"
    ELSE CASE memo.inputs.tag = "Untracked" -> "None"
           [] memo.inputs.tag = "NoInputs" -> "Some"
           [] memo.inputs.tag = "Tracked" -> "Walk"

\* validation succeeded: the guard's memo is marked verified, the event
\* DidValidateMemoizedValue is emitted and proceed follows
Verified(t) ==
    SetTop(t, [Top(t) EXCEPT
        !.pc = "proceed",
        !.events = Append(@, "DidValidateMemoizedValue"),
        !.memo = <<mark_value_as_verified(Top(t).memo[1], revision)>>,
        !.out = <<verified_value(Top(t).memo[1])>>])

\* validation failed or there is nothing to validate: execute the query function
Execute(t) == SetTop(t, [Top(t) EXCEPT !.pc = "exec", !.i = 1, !.acc = ActiveQuery])

\* read_upgrade, lines 181-196: validate the old memo, if it has a value
Validate(t) ==
    /\ At(t, "read", "validate")
    /\ LET memo == Top(t).memo
       IN  IF memo = <<>>
           THEN stack' = Execute(t) /\ UNCHANGED <<ret, mode, failed>>
           ELSE IF memo[1].value # <<>> /\ memo[1].verified_at = revision
           THEN \* line 658: assert!(self.verified_at != revision_now)
                /\ failed' = failed \cup {"validate_memoized_value"}
                /\ mode' = [mode EXCEPT ![t] = "unwind"]
                /\ ret' = [ret EXCEPT ![t] = RetPanic]
                /\ UNCHANGED stack
           ELSE /\ stack' = CASE validate_memoized_value(memo[1]) = "None" -> Execute(t)
                              [] validate_memoized_value(memo[1]) = "Some" -> Verified(t)
                              [] validate_memoized_value(memo[1]) = "Walk" ->
                                    SetTop(t, [Top(t) EXCEPT !.pc = "validate_iter", !.i = 1])
                /\ UNCHANGED <<ret, mode, failed>>
    /\ UNCHANGED <<revision, last_changed, input, state, lock, mailbox, blocked,
                   prog, harness, reads>>

\* validate_memoized_value, lines 689-707: the next tracked input is asked
\* maybe_changed_since(verified_at); the first "yes" ends the validation
ValidateInput(t) ==
    /\ At(t, "read", "validate_iter")
    /\ LET f == Top(t)
           deps == f.memo[1].inputs.inputs
       IN  IF f.i > Len(deps) THEN stack' = Verified(t)
           ELSE IF deps[f.i] \in InputKeys
           THEN IF input_maybe_changed_since(deps[f.i], f.memo[1].verified_at)
                THEN stack' = Execute(t)
                ELSE stack' = SetTop(t, [f EXCEPT !.i = f.i + 1])
           ELSE stack' = Push(t, [f EXCEPT !.pc = "validate_ret"],
                              Frame("mcs", deps[f.i], "m_start", "mcs",
                                    f.memo[1].verified_at))
    /\ UNCHANGED <<revision, last_changed, input, state, lock, ret, mode, mailbox,
                   blocked, prog, harness, reads, failed>>

\* the walk that asks the next input whatever the last one answered
ValidateRet_asks_on(t) ==
    /\ At(t, "read", "validate_ret")
    /\ stack' = SetTop(t, [Top(t) EXCEPT !.pc = "validate_iter", !.i = @ + 1])
    /\ ret' = [ret EXCEPT ![t] = NoRet]
    /\ UNCHANGED <<revision, last_changed, input, state, lock, mode, mailbox,
                   blocked, prog, harness, reads, failed>>

\* the input's maybe_changed_since has returned
ValidateRet(t) ==
    /\ At(t, "read", "validate_ret")
    /\ stack' = IF ret[t].b THEN Execute(t)
                ELSE SetTop(t, [Top(t) EXCEPT !.pc = "validate_iter", !.i = @ + 1])
    /\ ret' = [ret EXCEPT ![t] = NoRet]
    /\ UNCHANGED <<revision, last_changed, input, state, lock, mode, mailbox,
                   blocked, prog, harness, reads, failed>>

\* read_upgrade, lines 200-278: one read of the query function, or its end:
\* backdating, the new memo and the stamped value to return
Exec(t) ==
    /\ At(t, "read", "exec")
    /\ LET f == Top(t)
           ops == prog[f.key]
       IN  IF f.i > Len(ops)
           THEN IF backdate_assert(f.memo, f.acc)
                THEN /\ stack' = SetTop(t, [f EXCEPT
                            !.pc = "proceed",
                            !.memo = <<new_memo(f.key, f.memo, f.acc, revision)>>,
                            !.out = <<new_value(f.memo, f.acc)>>])
                     /\ UNCHANGED <<ret, mode, failed>>
                ELSE /\ failed' = failed \cup {"backdate"}
                     /\ mode' = [mode EXCEPT ![t] = "unwind"]
                     /\ ret' = [ret EXCEPT ![t] = RetPanic]
                     /\ UNCHANGED stack
           ELSE IF ops[f.i] \in InputKeys
           THEN IF input[ops[f.i]] = <<>>
                THEN \* the input storage panics on an input that was never set
                     /\ mode' = [mode EXCEPT ![t] = "unwind"]
                     /\ ret' = [ret EXCEPT ![t] = RetPanic]
                     /\ UNCHANGED <<stack, failed>>
                ELSE /\ stack' = SetTop(t, [f EXCEPT
                            !.i = f.i + 1,
                            !.acc = add_read(f.acc, ops[f.i], input[ops[f.i]][1])])
                     /\ UNCHANGED <<ret, mode, failed>>
           ELSE IF ops[f.i] \in DerivedKeys
           THEN /\ stack' = Push(t, [f EXCEPT !.pc = "exec_ret"],
                                 Frame("read", ops[f.i], "start", "read", revision))
                /\ UNCHANGED <<ret, mode, failed>>
           ELSE IF ops[f.i] = "!"
           THEN IF f.acc.value = MaxValue
                THEN /\ mode' = [mode EXCEPT ![t] = "unwind"]
                     /\ ret' = [ret EXCEPT ![t] = RetPanic]
                     /\ UNCHANGED <<stack, failed>>
                ELSE /\ stack' = SetTop(t, [f EXCEPT !.i = f.i + 1])
                     /\ UNCHANGED <<ret, mode, failed>>
           ELSE FALSE
    /\ UNCHANGED <<revision, last_changed, input, state, lock, mailbox, blocked,
                   prog, harness, reads>>

\* the query function makes an untracked read: report_untracked_read, and a
\* value the query system knows nothing about
ExecUntracked(t, v) ==
    /\ At(t, "read", "exec")
    /\ Top(t).i <= Len(prog[Top(t).key])
    /\ prog[Top(t).key][Top(t).i] = "*"
    /\ stack' = SetTop(t, [Top(t) EXCEPT
            !.i = @ + 1,
            !.acc = add_untracked_read(Top(t).acc, v, revision)])
    /\ UNCHANGED <<revision, last_changed, input, state, lock, ret, mode, mailbox,
                   blocked, prog, harness, reads, failed>>

\* the read of a derived query inside the query function has returned; a
\* cycle error ends the query function, which leaves read_upgrade only by
\* unwinding through its PanicGuard
ExecRet(t) ==
    /\ At(t, "read", "exec_ret")
    /\ LET f == Top(t)
       IN  IF ret[t].kind = "ok"
           THEN /\ stack' = SetTop(t, [f EXCEPT
                        !.pc = "exec",
                        !.i = f.i + 1,
                        !.acc = add_read(f.acc, prog[f.key][f.i], ret[t].sv)])
                /\ ret' = [ret EXCEPT ![t] = NoRet]
                /\ UNCHANGED mode
           ELSE /\ mode' = [mode EXCEPT ![t] = "unwind"]
                /\ ret' = [ret EXCEPT ![t] = RetCycle]
                /\ UNCHANGED stack
    /\ UNCHANGED <<revision, last_changed, input, state, lock, mailbox, blocked,
                   prog, harness, reads, failed>>

\* overwrite_placeholder, line 567: self.slot.state.write()
ProceedLock(t) ==
    /\ At(t, "read", "proceed")
    /\ lock[Top(t).key] = Unlocked
    /\ lock' = WriteLocked(Top(t).key, t)
    /\ stack' = SetTop(t, [Top(t) EXCEPT !.pc = "overwrite"])
    /\ UNCHANGED <<revision, last_changed, input, state, ret, mode, mailbox,
                   blocked, prog, harness, reads, failed>>

\* the sinks of the waiters are kept alive and nothing is sent on them
Notified_nobody(st, r) == mailbox

\* the sinks of the waiters of an InProgress state receive r
Notified(st, r) ==
    [u \in Runtimes |->
        IF st.tag = "InProgress" /\ u \in st.waiting THEN <<r>> ELSE mailbox[u]]

\* overwrite_placeholder, lines 580-609: the state that was replaced must be
\* the InProgress marker of this runtime
Placeholder(st, t) ==
    IF st.tag = "InProgress" /\ st.id = t THEN failed
    ELSE failed \cup {"overwrite_placeholder"}

\* PanicGuard::proceed: the memo replaces InProgress, the waiters get the value
Overwrite(t) ==
    /\ At(t, "read", "overwrite")
    /\ LET f == Top(t)
           k == f.key
       IN  /\ state' = [state EXCEPT ![k] = overwrite_placeholder(f.memo)]
           /\ blocked' = unblock_queries_blocked_on_self(t, k)
           /\ mailbox' = Notified(state[k], RetOk(f.out[1]))
           /\ failed' = Placeholder(state[k], t)
           /\ lock' = Released(k, t)
           /\ Return(t, RetOk(f.out[1]))
    /\ UNCHANGED <<revision, last_changed, input, mode, prog, harness>>

----------------------------------------------------------------------------
(* Unwinding: Drop for PanicGuard *)

Unwinding(t) == mode[t] = "unwind" /\ stack[t] # <<>>

Popped(t) ==
    /\ stack' = Pop(t)
    /\ mode' = [mode EXCEPT ![t] = IF Len(stack[t]) = 1 THEN "run" ELSE "unwind"]

\* a frame without a PanicGuard is left
UnwindPop(t) ==
    /\ Unwinding(t)
    /\ ~(Top(t).fn = "read" /\ Top(t).pc \in GuardPcs)
    /\ Popped(t)
    /\ UNCHANGED <<revision, last_changed, input, state, lock, ret, mailbox,
                   blocked, prog, harness, reads, failed>>

\* Drop for PanicGuard, overwrite_placeholder line 567: self.slot.state.write()
UnwindLock(t) ==
    /\ Unwinding(t)
    /\ Top(t).fn = "read"
    /\ Top(t).pc \in GuardPcs \ {"drop"}
    /\ lock[Top(t).key] = Unlocked
    /\ lock' = WriteLocked(Top(t).key, t)
    /\ stack' = SetTop(t, [Top(t) EXCEPT !.pc = "drop"])
    /\ UNCHANGED <<revision, last_changed, input, state, ret, mode, mailbox,
                   blocked, prog, harness, reads, failed>>

\* Drop for PanicGuard: overwrite_placeholder(None) writes what memo.take()
\* gives and drops the sinks of the waiters
UnwindDrop(t) ==
    /\ Unwinding(t)
    /\ Top(t).fn = "read"
    /\ Top(t).pc = "drop"
    /\ LET f == Top(t)
           k == f.key
       IN  /\ state' = [state EXCEPT ![k] = overwrite_placeholder(f.memo)]
           /\ blocked' = unblock_queries_blocked_on_self(t, k)
           /\ mailbox' = Notified(state[k], RetPanic)
           /\ failed' = Placeholder(state[k], t)
           /\ lock' = Released(k, t)
    /\ Popped(t)
    /\ UNCHANGED <<revision, last_changed, input, ret, prog, harness, reads>>

----------------------------------------------------------------------------
(* DatabaseSlot::maybe_changed_since *)

\* maybe_changed_since that answers "changed" whatever the slot holds
maybe_changed_since_always(st, t, rev, revision_now) == [tag |-> "Return", b |-> TRUE]

\* maybe_changed_since, lines 790-903, under the shared lock: what to do next.
\* "Return" (answer b), "Block" (wait for the InProgress runtime), "Write"
\* (write back maybe_changed = b), "Upgrade" (fall back to read_upgrade),
\* "Walk" (ask the tracked inputs)
maybe_changed_since_probe(st, t, rev, revision_now) ==
    CASE st.tag = "NotComputed" -> [tag |-> "Return", b |-> TRUE]
      [] st.tag = "InProgress" ->
            IF register_with_in_progress_thread(t, st.id) = "Ok"
            THEN [tag |-> "Block", b |-> FALSE]
            ELSE [tag |-> "Return", b |-> TRUE]
      [] st.tag = "Memoized" ->
            IF st.memo.verified_at = revision_now
            THEN [tag |-> "Return", b |-> st.memo.changed_at > rev]
            ELSE IF check_durability(st.memo)
            THEN [tag |-> "Write", b |-> FALSE]
            ELSE CASE st.memo.inputs.tag = "Untracked" -> [tag |-> "Return", b |-> TRUE]
                   [] st.memo.inputs.tag = "NoInputs" -> [tag |-> "Write", b |-> FALSE]
                   [] st.memo.inputs.tag = "Tracked" ->
                        IF st.memo.value # <<>>
                        THEN [tag |-> "Upgrade", b |-> FALSE]
                        ELSE [tag |-> "Walk", b |-> FALSE]

\* the write-back that never removes a memo found out of date
maybe_changed_since_write_keeps(st, maybe_changed, revision_now) ==
    IF st.tag = "Memoized" /\ st.memo.verified_at # revision_now /\ ~maybe_changed
    THEN Memoized([st.memo EXCEPT !.verified_at = revision_now])
    ELSE st

\* maybe_changed_since, lines 911-955: the write-back under the exclusive lock
maybe_changed_since_write(st, maybe_changed, revision_now) ==
    IF st.tag = "Memoized"
    THEN IF st.memo.verified_at = revision_now THEN st
         ELSE IF maybe_changed THEN NotComputed
         ELSE Memoized([st.memo EXCEPT !.verified_at = revision_now])
    ELSE st

\* maybe_changed_since, line 787: self.state.read()
McsLock(t) ==
    /\ At(t, "mcs", "m_start")
    /\ lock[Top(t).key].w = {}
    /\ lock' = ReadLocked(Top(t).key, t)
    /\ stack' = SetTop(t, [Top(t) EXCEPT !.pc = "m_probe"])
    /\ UNCHANGED <<revision, last_changed, input, state, ret, mode, mailbox,
                   blocked, prog, harness, reads, failed>>

\* maybe_changed_since, lines 790-903: the match on the state; every arm
\* releases the shared lock
McsProbe(t) ==
    /\ At(t, "mcs", "m_probe")
    /\ LET f == Top(t)
           k == f.key
           p == maybe_changed_since_probe(state[k], t, f.rev, revision)
       IN  CASE p.tag = "Return" ->
                    /\ Return(t, RetBool(p.b))
                    /\ lock' = Released(k, t)
                    /\ UNCHANGED <<state, blocked, mode, mailbox>>
             [] p.tag = "Block" -> Wait(t, k, "m_recv")
             [] p.tag = "Write" ->
                    /\ stack' = SetTop(t, [f EXCEPT !.pc = "m_write", !.mc = p.b])
                    /\ lock' = Released(k, t)
                    /\ UNCHANGED <<state, blocked, ret, reads, mode, mailbox>>
             [] p.tag = "Upgrade" ->
                    /\ stack' = Push(t, [f EXCEPT !.pc = "m_upgrade_ret"],
                                     Frame("read", k, "upgrade", "mcs", revision))
                    /\ lock' = Released(k, t)
                    /\ UNCHANGED <<state, blocked, ret, reads, mode, mailbox>>
             [] p.tag = "Walk" ->
                    /\ stack' = SetTop(t, [f EXCEPT
                            !.pc = "m_iter", !.i = 1,
                            !.inputs = state[k].memo.inputs.inputs])
                    /\ lock' = Released(k, t)
                    /\ UNCHANGED <<state, blocked, ret, reads, mode, mailbox>>
    /\ UNCHANGED <<revision, last_changed, input, prog, harness, failed>>

\* maybe_changed_since, lines 814-815: recv, then changed_at > revision
McsRecv(t) ==
    /\ At(t, "mcs", "m_recv")
    /\ mailbox[t] # <<>>
    /\ mailbox' = [mailbox EXCEPT ![t] = <<>>]
    /\ IF mailbox[t][1].kind = "ok"
       THEN Return(t, RetBool(mailbox[t][1].sv.changed_at > Top(t).rev))
            /\ UNCHANGED mode
       ELSE Panic(t, RetPanic)
    /\ UNCHANGED <<revision, last_changed, input, state, lock, blocked, prog, harness, failed>>

\* maybe_changed_since, lines 873-884: read_upgrade has returned
McsUpgradeRet(t) ==
    /\ At(t, "mcs", "m_upgrade_ret")
    /\ Return(t, RetBool(IF ret[t].kind = "ok"
                         THEN ret[t].sv.changed_at > Top(t).rev ELSE TRUE))
    /\ UNCHANGED <<revision, last_changed, input, state, lock, mode, mailbox,
                   blocked, prog, harness, failed>>

\* maybe_changed_since, lines 895-900: the next input is asked
\* maybe_changed_since(revision); the first "yes" ends the walk
McsInput(t) ==
    /\ At(t, "mcs", "m_iter")
    /\ LET f == Top(t)
       IN  IF f.i > Len(f.inputs)
           THEN stack' = SetTop(t, [f EXCEPT !.pc = "m_write", !.mc = FALSE])
           ELSE IF f.inputs[f.i] \in InputKeys
           THEN IF input_maybe_changed_since(f.inputs[f.i], f.rev)
                THEN stack' = SetTop(t, [f EXCEPT !.pc = "m_write", !.mc = TRUE])
                ELSE stack' = SetTop(t, [f EXCEPT !.i = f.i + 1])
           ELSE stack' = Push(t, [f EXCEPT !.pc = "m_iter_ret"],
                              Frame("mcs", f.inputs[f.i], "m_start", "mcs", f.rev))
    /\ UNCHANGED <<revision, last_changed, input, state, lock, ret, mode, mailbox,
                   blocked, prog, harness, reads, failed>>

\* the input's maybe_changed_since has returned
McsInputRet(t) ==
    /\ At(t, "mcs", "m_iter_ret")
    /\ stack' = IF ret[t].b
                THEN SetTop(t, [Top(t) EXCEPT !.pc = "m_write", !.mc = TRUE])
                ELSE SetTop(t, [Top(t) EXCEPT !.pc = "m_iter", !.i = @ + 1])
    /\ ret' = [ret EXCEPT ![t] = NoRet]
    /\ UNCHANGED <<revision, last_changed, input, state, lock, mode, mailbox,
                   blocked, prog, harness, reads, failed>>

\* maybe_changed_since, line 912: self.state.write()
McsWriteLock(t) ==
    /\ At(t, "mcs", "m_write")
    /\ lock[Top(t).key] = Unlocked
    /\ lock' = WriteLocked(Top(t).key, t)
    /\ stack' = SetTop(t, [Top(t) EXCEPT !.pc = "m_write_back"])
    /\ UNCHANGED <<revision, last_changed, input, state, ret, mode, mailbox,
                   blocked, prog, harness, reads, failed>>

\* maybe_changed_since, lines 913-957: write back and return maybe_changed
McsWrite(t) ==
    /\ At(t, "mcs", "m_write_back")
    /\ LET f == Top(t)
       IN  /\ state' = [state EXCEPT ![f.key] =
                            maybe_changed_since_write(@, f.mc, revision)]
           /\ lock' = Released(f.key, t)
           /\ Return(t, RetBool(f.mc))
    /\ UNCHANGED <<revision, last_changed, input, mode, mailbox, blocked, prog, harness, failed>>

----------------------------------------------------------------------------
(* Slot::sweep and Slot::evict *)

Strategies ==
    [discard_if : {"Outdated", "Always"}, discard_what : {"Values", "Everything"}]

\* sweep that discards whatever state it finds
sweep_any_state(st, revision_now, strategy) ==
    IF st.tag = "Memoized" THEN sweep_memoized(st, revision_now, strategy)
    ELSE IF strategy.discard_what = "Everything" THEN NotComputed
    ELSE st

\* every SweepStrategy, the illegal ones included
AllStrategies ==
    [discard_if : {"Never", "Outdated", "Always"},
     discard_what : {"Nothing", "Values", "Everything"}]

\* Slot::sweep on any state
sweep(st, revision_now, strategy) ==
    IF st.tag = "Memoized" THEN sweep_memoized(st, revision_now, strategy) ELSE st

\* Slot::sweep(revision_now, strategy), the whole method under the exclusive lock
Sweep(k, strategy) ==
    /\ lock[k] = Unlocked
    /\ state' = [state EXCEPT ![k] = sweep(@, revision, strategy)]
    /\ failed' = IF state[k].tag = "Memoized" /\ ~(state[k].memo.verified_at <= revision)
                 THEN failed \cup {"sweep"}
                 ELSE IF sweep_unreachable(state[k], revision, strategy)
                 THEN failed \cup {"unreachable"}
                 ELSE failed
    /\ UNCHANGED <<revision, last_changed, input, lock, stack, ret, mode, mailbox,
                   blocked, prog, harness, reads>>

\* evict that clears the value of whatever memo it finds
evict_any(st) ==
    IF st.tag = "Memoized" THEN Memoized([st.memo EXCEPT !.value = <<>>]) ELSE st

\* evict that leaves every slot as it is
evict_nothing(st) == st

\* Slot::evict on any state
evict(st) == IF st.tag = "Memoized" THEN Memoized(evict_memo(st.memo)) ELSE st

\* Slot::evict(), the whole method under the exclusive lock
Evict(k) ==
    /\ lock[k] = Unlocked
    /\ state' = [state EXCEPT ![k] = evict(@)]
    /\ UNCHANGED <<revision, last_changed, input, lock, stack, ret, mode, mailbox,
                   blocked, prog, harness, reads, failed>>

\* runtime t is back from a read of another key than k inside a query
\* function: the LRU list, told of the use, may evict k
Fetched(t, k) ==
    /\ At(t, "read", "exec_ret")
    /\ prog[Top(t).key][Top(t).i] # k

\* a single-threaded program sweeps between its queries
SweepBetweenQueries(k, strategy) == Idle(MAIN) /\ Sweep(k, strategy)

\* a single-threaded program evicts where it tells the LRU list of a use
EvictByLru(k) == (Idle(MAIN) \/ Fetched(MAIN, k)) /\ Evict(k)

\* the writes to the inputs: "y" takes any value and durability, "x" is
\* rewritten with the same value at the lowest durability
Writes ==
    [key : {"y"}, value : Values, durability : Durabilities]
    \cup [key : {"x"}, value : {0}, durability : {LOW}]

----------------------------------------------------------------------------
(* Specification *)

\* one step of runtime t inside a call
Step(t) ==
    \/ ReadLock(t)
    \/ ReadProbe(t)
    \/ UpgradeLock(t)
    \/ UpgradeProbe(t)
    \/ Validate(t)
    \/ ValidateInput(t)
    \/ ValidateRet(t)
    \/ Exec(t)
    \/ ExecRet(t)
    \/ ProceedLock(t)
    \/ Overwrite(t)
    \/ UnwindPop(t)
    \/ UnwindLock(t)
    \/ UnwindDrop(t)
    \/ McsLock(t)
    \/ McsProbe(t)
    \/ McsUpgradeRet(t)
    \/ McsInput(t)
    \/ McsWriteLock(t)
    \/ McsWrite(t)

\* the steps runtime t takes by itself once it is inside a call
Runs(t) == Step(t) \/ Recv(t) \/ McsRecv(t)

\* one runtime: reads, new revisions, sweeps and evictions in any order
Next ==
    \/ \E w \in Writes : Set(w.key, w.value, w.durability, MaxRevision)
    \/ \E k \in Queries : StartRead(MAIN, k)
    \/ Step(MAIN)
    \/ \E v \in Values : ExecUntracked(MAIN, v)
    \/ \E k \in Queries, s \in Strategies : SweepBetweenQueries(k, s)
    \/ \E k \in Queries : EvictByLru(k)

Spec == Init /\ [][Next]_vars

\* one runtime, swept between its queries with any strategy
NextSweep ==
    \/ \E w \in Writes : Set(w.key, w.value, w.durability, MaxRevision)
    \/ \E k \in Queries : StartRead(MAIN, k)
    \/ Step(MAIN)
    \/ \E v \in Values : ExecUntracked(MAIN, v)
    \/ \E k \in DerivedKeys, s \in AllStrategies : SweepBetweenQueries(k, s)

SpecSweep == Init /\ [][NextSweep]_vars

\* one runtime and a chain of three derived queries
NextChain ==
    \/ \E w \in Writes : Set(w.key, w.value, w.durability, MaxRevisionChain)
    \/ \E k \in Queries : StartRead(MAIN, k)
    \/ Step(MAIN)
    \/ McsInputRet(MAIN)
    \/ \E k \in Queries, s \in Strategies : SweepBetweenQueries(k, s)
    \/ \E k \in Queries : EvictByLru(k)

SpecChain == InitChain /\ [][NextChain]_vars

\* several runtimes reading concurrently
NextConc ==
    \/ \E w \in Writes : Set(w.key, w.value, w.durability, MaxRevisionConc)
    \/ \E t \in Runtimes, k \in Queries : StartRead(t, k)
    \/ \E t \in Runtimes : Step(t)
    \/ \E t \in Runtimes, v \in Values : ExecUntracked(t, v)
    \/ \E t \in Runtimes : Recv(t)
    \/ \E t \in Runtimes : McsRecv(t)
    \/ \E k \in Queries, s \in Strategies : Sweep(k, s)
    \/ \E k \in Queries : Evict(k)

SpecConc == InitConc /\ [][NextConc]_vars

\* the query functions of the runs that are scheduled fairly
LivePrograms ==
    { [A |-> <<"B">>, B |-> <<"y", "!">>],
      [A |-> <<"B">>, B |-> <<"A">>] }

InitLive == InitWith(LivePrograms)

\* several runtimes reading concurrently while "y" is rewritten and the LRU
\* list evicts
NextLive ==
    \/ \E v \in Values : Set("y", v, LOW, MaxRevisionConc)
    \/ \E t \in Runtimes, k \in Queries : StartRead(t, k)
    \/ \E t \in Runtimes : Runs(t)
    \/ \E k \in Queries : Evict(k)

\* every runtime inside a call is scheduled again and again, and a runtime
\* that asks for the lock of a slot gets it when the lock is free again and
\* again (the RwLock of parking_lot is eventually fair)
SpecLive ==
    InitLive /\ [][NextLive]_vars /\ \A t \in Runtimes : SF_vars(Runs(t))

\* the query functions of a database whose query D is stored without its value
PolicyPrograms ==
    { [A |-> <<"D">>, D |-> <<"y", "!">>],
      [A |-> <<"D", "x">>, D |-> <<"*">>],
      [A |-> <<"x", "D">>, D |-> <<>>],
      [C |-> <<"A">>, A |-> <<"D">>, D |-> <<"y", "!">>] }

InitPolicy == InitWith(PolicyPrograms)

\* one runtime reading queries of which one is stored without its value
SpecPolicy == InitPolicy /\ [][Next]_vars

\* the query functions of the runs that are evicted at any moment: B reads an
\* input, or reads nothing
EvictPrograms ==
    { [A |-> <<"B">>, B |-> <<"y", "!">>],
      [A |-> <<"B">>, B |-> <<>>] }

InitEvict == InitWith(EvictPrograms)

\* several runtimes reading concurrently while the LRU list evicts
SpecEvict == InitEvict /\ [][NextLive]_vars

----------------------------------------------------------------------------
(* tests/lru.rs: one query with an LRU capacity, read key after key *)

\* for i in (0..3): the number of passes over the keys
LruPasses == 3

\* the keys in the order the tests request them
KeyOrder == <<"A", "B", "C">>

\* "#" is the read of get_volatile: report_untracked_read and the COUNTER
LruPrograms ==
    { [A |-> <<>>, B |-> <<>>, C |-> <<>>],
      [A |-> <<"#">>, B |-> <<"#">>, C |-> <<"#">>] }

InitLru == InitWithCapacity(LruPrograms, LruCap)

\* the database runs get_volatile
VolatileTest == \A k \in Queries : InSeq("#", prog[k])

\* no fetch is under way
BetweenFetches == Idle(MAIN) /\ ret[MAIN].kind = "none"

\* db.get(k) / db.get_volatile(k): DerivedStorage::try_fetch calls Slot::read;
\* lru_doesnt_break_volatile_queries asks for the keys in order, pass after pass
LruRead(k) ==
    /\ BetweenFetches
    /\ IF VolatileTest
       THEN /\ Len(observed) < LruPasses * Len(KeyOrder)
            /\ k = KeyOrder[(Len(observed) % Len(KeyOrder)) + 1]
       ELSE Len(observed) < MaxLruReads
    /\ stack' = [stack EXCEPT ![MAIN] =
                    <<Frame("fetch", k, "f_ret", "test", revision),
                      Frame("read", k, "start", "read", revision)>>]
    /\ UNCHANGED <<revision, last_changed, input, state, lock, ret, mode, mailbox,
                   blocked, prog, reads, failed, harness>>

\* get_volatile: report_untracked_read, then COUNTER.fetch_add(1)
counter_read(acc, c, revision_now) ==
    [add_untracked_read(acc, 0, revision_now) EXCEPT !.value = c]

\* the query function get_volatile runs
ExecCounter(t) ==
    /\ At(t, "read", "exec")
    /\ Top(t).i <= Len(prog[Top(t).key])
    /\ prog[Top(t).key][Top(t).i] = "#"
    /\ stack' = SetTop(t, [Top(t) EXCEPT
            !.i = @ + 1,
            !.acc = counter_read(Top(t).acc, counter, revision)])
    /\ counter' = counter + 1
    /\ UNCHANGED <<revision, last_changed, input, state, lock, ret, mode, mailbox,
                   blocked, prog, reads, failed, observed, lru, cap>>

\* Lru::record_use(k): the list with k at its front
used(k) == <<k>> \o SelectSeq(lru, LAMBDA j : j # k)

\* Lru::record_use(k): the key that falls off the list, if any
evicted(k) ==
    IF cap > 0 /\ Len(used(k)) > cap THEN <<used(k)[Len(used(k))]>> ELSE <<>>

\* the tail of try_fetch: the LRU list is told of the use and the slot that
\* falls off the list is evicted; the test looks at the value
LruFetched ==
    /\ At(MAIN, "fetch", "f_ret")
    /\ ret[MAIN].kind = "ok"
    /\ LET k == Top(MAIN).key
       IN  /\ lru' = IF cap = 0 THEN lru
                     ELSE IF evicted(k) = <<>> THEN used(k)
                     ELSE SubSeq(used(k), 1, cap)
           /\ state' = [j \in DerivedKeys |->
                            IF evicted(k) = <<j>> THEN evict(state[j]) ELSE state[j]]
           /\ observed' = Append(observed, [key |-> k, value |-> ret[MAIN].sv.value])
    /\ stack' = Pop(MAIN)
    /\ ret' = [ret EXCEPT ![MAIN] = NoRet]
    /\ UNCHANGED <<revision, last_changed, input, lock, mode, mailbox, blocked,
                   prog, reads, failed, counter, cap>>

\* set_lru_capacity(c) of lru_works: the capacity is raised once, and 0
\* disables the LRU
SetLruCapacity(c) ==
    /\ BetweenFetches
    /\ ~VolatileTest
    /\ \/ cap = LruCap /\ c = cap + 1
       \/ cap > 0 /\ c = 0
    /\ cap' = c
    /\ lru' = IF c = 0 THEN <<>> ELSE lru
    /\ observed' = <<>>
    /\ UNCHANGED <<revision, last_changed, input, state, lock, stack, ret, mode,
                   mailbox, blocked, prog, reads, failed, counter>>

\* the steps of Slot::read in a database whose queries read no other query
Fetch(t) ==
    \/ ReadLock(t)
    \/ ReadProbe(t)
    \/ UpgradeLock(t)
    \/ UpgradeProbe(t)
    \/ Validate(t)
    \/ Exec(t)
    \/ ProceedLock(t)
    \/ Overwrite(t)

NextLru ==
    \/ \E k \in Queries : LruRead(k)
    \/ Fetch(MAIN)
    \/ ExecCounter(MAIN)
    \/ LruFetched
    \/ \E c \in 0..(LruCap + 1) : SetLruCapacity(c)

SpecLru == InitLru /\ [][NextLru]_vars

----------------------------------------------------------------------------
(* Properties *)

\* the PanicGuards alive for key k: runtime and position in its stack
Guards(k) ==
    UNION { { <<t, j>> : j \in { i \in 1..Len(stack[t]) :
                                    /\ stack[t][i].fn = "read"
                                    /\ stack[t][i].key = k
                                    /\ stack[t][i].pc \in GuardPcs } } :
            t \in Runtimes }

\* C1: at every moment at most one runtime holds the InProgress marker of a
\* slot: the slot is InProgress exactly while one read_upgrade that installed
\* the marker has not yet completed, and the marker names that runtime; no
\* second read_upgrade is past its probe for the same key.
C1_AtMostOneInProgress ==
    \A k \in DerivedKeys :
        /\ Cardinality(Guards(k)) <= 1
        /\ state[k].tag = "InProgress" <=> Guards(k) # {}
        /\ \A tj \in Guards(k) : state[k].id = tj[1]

\* C1 witness: a runtime holds the marker and another runtime, which found
\* the slot InProgress, waits for it
C1_Witness ==
    \E k \in DerivedKeys, t \in Runtimes, u \in Runtimes :
        /\ t # u
        /\ state[k].tag = "InProgress"
        /\ state[k].id = t
        /\ u \in state[k].waiting
        /\ stack[u] # <<>>
        /\ Top(u).pc = "recv"
        /\ Top(u).key = k

\* runtime t takes the step that leaves position pc of Slot::read
Leaves(t, pc) ==
    /\ At(t, "read", pc)
    /\ stack'[t] # stack[t]

\* the runtimes inside the query function of k
Executing(k) ==
    { t \in Runtimes :
        \E j \in 1..Len(stack[t]) :
            /\ stack[t][j].fn = "read"
            /\ stack[t][j].key = k
            /\ stack[t][j].pc \in {"exec", "exec_ret"} }

\* what the call on top of the stack of t hands to its caller in this step
Hands(t, sv) ==
    /\ stack'[t] = SubSeq(stack[t], 1, Len(stack[t]) - 1)
    /\ Len(stack[t]) > 1 => ret'[t] = RetOk(sv)
    /\ Top(t).via = "read" => sv \in reads'[Top(t).key]

\* the step of proceed: one stamped value is memoized, returned and sent to
\* every waiter
C2_Proceed(t) ==
    LET k == Top(t).key
        m == state'[k].memo
        sv == StampedValue(m.value[1], m.durability, m.changed_at)
    IN  /\ state'[k].tag = "Memoized"
        /\ m.value # <<>>
        /\ Hands(t, sv)
        /\ \A u \in state[k].waiting : mailbox'[u] = <<RetOk(sv)>>

\* the step of a waiter that leaves recv with a value: it returns that value
C2_Receive(u) ==
    mailbox[u][1].kind = "ok" => Hands(u, mailbox[u][1].sv)

\* C2: of the runtimes that read one stale or absent key at the same time
\* exactly one executes the query function; the others wait, none of them
\* is inside the query function of that key, and each receives and returns
\* the very stamped value the executing runtime returns and memoizes.
C2_WaitersGetTheSameValue ==
    [][ /\ \A k \in DerivedKeys :
              /\ Cardinality(Executing(k)) <= 1
              /\ state[k].tag = "InProgress" =>
                    /\ state[k].waiting \cap Executing(k) = {}
                    /\ \A u \in state[k].waiting :
                          Top(u).key = k /\ Top(u).pc \in {"recv", "m_recv"}
        /\ \A t \in Runtimes :
              /\ Leaves(t, "overwrite") => C2_Proceed(t)
              /\ Leaves(t, "recv") => C2_Receive(t) ]_vars

\* C2 witness: a waiter has been sent the value of the runtime that executed
C2_Witness ==
    \E u \in Runtimes :
        /\ At(u, "read", "recv")
        /\ mailbox[u] # <<>>
        /\ mailbox[u][1].kind = "ok"
        /\ state[Top(u).key].tag = "Memoized"

\* runtime t probes key k whose slot is InProgress and may not wait for it
MeetsCycle(t, k) ==
    /\ \/ At(t, "read", "probe")
       \/ At(t, "read", "probe_w")
    /\ Top(t).key = k
    /\ state[k].tag = "InProgress"
    /\ \/ state[k].id = t
       \/ Reaches(state[k].id, t, NumRuntimes)

\* C9: a read of key k that finds the slot InProgress under its own runtime
\* id, or under a runtime that already waits for this one, returns the
\* Cycle error: it does not execute the query function of k, does not
\* register as a waiter, and changes no slot.
C9_NoCycleProgress ==
    [][ \A t \in Runtimes, k \in DerivedKeys :
            MeetsCycle(t, k) /\ stack'[t] # stack[t] =>
                /\ stack'[t] = SubSeq(stack[t], 1, Len(stack[t]) - 1)
                /\ ret'[t].kind = "cycle"
                /\ state' = state
                /\ mailbox' = mailbox
                /\ blocked' = blocked ]_vars

\* C9 witness: the query function of a key got the Cycle error from a read
\* of a key that a runtime waiting for this one has in progress
C9_Witness ==
    \E t \in Runtimes, u \in Runtimes :
        /\ t # u
        /\ At(t, "read", "exec_ret")
        /\ ret[t].kind = "cycle"
        /\ blocked[u] # <<>>
        /\ blocked[u][1].on = t
        /\ state[prog[Top(t).key][Top(t).i]].tag = "InProgress"
        /\ state[prog[Top(t).key][Top(t).i]].id = u

RECURSIVE CallsWithin(_, _, _)
\* does the query function of k read key `target` within n nested calls?
CallsWithin(k, target, n) ==
    /\ n > 0
    /\ \E j \in 1..Len(prog[k]) :
          \/ prog[k][j] = target
          \/ prog[k][j] \in Queries /\ CallsWithin(prog[k][j], target, n - 1)

\* every read of every query function is tracked and no query reads itself
TrackedProgram ==
    \A k \in Queries :
        /\ ~InSeq("*", prog[k])
        /\ ~CallsWithin(k, k, Cardinality(Queries))

RECURSIVE Eval(_, _)
\* the value the query function of k produces from the current inputs when
\* its first i reads are evaluated from scratch
Eval(k, i) ==
    IF i = 0 THEN ActiveQuery.value
    ELSE LET op == prog[k][i]
         IN  IF op \in InputKeys THEN Combine(Eval(k, i - 1), input[op][1].value)
             ELSE IF op \in Queries
             THEN Combine(Eval(k, i - 1), Eval(op, Len(prog[op])))
             ELSE Eval(k, i - 1)

\* C3: when every read is tracked, the value a read of k returns is the value
\* the query function of k produces from the inputs as they are in the
\* current revision.
C3_ReadReturnsCurrentValue ==
    TrackedProgram =>
        \A k \in Queries : \A sv \in reads[k] : sv.value = Eval(k, Len(prog[k]))

\* C4: when every read is tracked, two reads of the same key in one revision
\* return equal values with the same changed_at, whatever evict, sweep or
\* maybe_changed_since did in between.
C4_SameResultWithinRevision ==
    TrackedProgram =>
        \A k \in Queries : \A a \in reads[k], b \in reads[k] :
            a.value = b.value /\ a.changed_at = b.changed_at

\* runtime t takes the step in which maybe_changed_since returns
McsReturns(t) ==
    /\ mode[t] = "run"
    /\ stack[t] # <<>>
    /\ Top(t).fn = "mcs"
    /\ stack'[t] = SubSeq(stack[t], 1, Len(stack[t]) - 1)
    /\ ret'[t].kind = "bool"

\* C5: when maybe_changed_since(revision) answers false, the slot holds a
\* memo whose changed_at is at most revision.
C5_MaybeChangedSinceSound ==
    [][ \A t \in Runtimes :
            McsReturns(t) /\ ~ret'[t].b =>
                /\ state'[Top(t).key].tag = "Memoized"
                /\ state'[Top(t).key].memo.changed_at <= Top(t).rev ]_vars

\* runtime t takes the step of Drop for PanicGuard
Drops(t) ==
    /\ Unwinding(t)
    /\ Top(t).fn = "read"
    /\ Top(t).pc = "drop"
    /\ stack'[t] # stack[t]

\* C7: when the query function panics, the guard leaves the slot
\* NotComputed whatever it held before the read, every waiter finds its
\* sink closed, and the slot does not stay InProgress.
C7_PanicLeavesNotComputed ==
    [][ \A t \in Runtimes :
            Drops(t) =>
                /\ state'[Top(t).key] = NotComputed
                /\ \A u \in state[Top(t).key].waiting : mailbox'[u] = <<RetPanic>> ]_vars

\* the frame on top of the stack of t after the step
TopAfter(t) == stack'[t][Len(stack'[t])]

\* the old memo has a value equal to the result and no higher durability
Backdates(old_memo, result) ==
    /\ old_memo # <<>>
    /\ old_memo[1].value # <<>>
    /\ old_memo[1].value[1] = result.value
    /\ result.durability >= old_memo[1].durability

C8_RevisionOrder ==
    /\ "sweep" \notin failed
    /\ \A k \in DerivedKeys :
          state[k].tag = "Memoized" /\ lock[k] = Unlocked =>
              /\ state[k].memo.changed_at <= state[k].memo.verified_at
              /\ state[k].memo.verified_at <= revision

\* C8 witness: a memo computed in an earlier revision has been verified in
\* the current one, and another memo is still to be verified
C8_Witness ==
    \E k \in DerivedKeys, j \in DerivedKeys :
        /\ state[k].tag = "Memoized"
        /\ lock[k] = Unlocked
        /\ state[k].memo.changed_at < state[k].memo.verified_at
        /\ state[k].memo.verified_at = revision
        /\ state[j].tag = "Memoized"
        /\ lock[j] = Unlocked
        /\ state[j].memo.verified_at < revision

\* the query functions read each other: A reads B and B reads A
CycleProgram == \E k \in Queries : CallsWithin(k, k, Cardinality(Queries))

\* C10: when A reads B and B reads A, a read of either key results in the
\* Cycle error, no memo is ever written, and when the read is over both
\* slots are NotComputed with their locks free, so that a later read can
\* install InProgress again.
C10_CycleLeavesNotComputed ==
    CycleProgram =>
        /\ \A k \in Queries : state[k].tag # "Memoized"
        /\ \A t \in Runtimes : Idle(t) => ret[t].kind \in {"none", "cycle"}
        /\ (\A t \in Runtimes : Idle(t)) =>
              \A k \in Queries : state[k] = NotComputed /\ lock[k] = Unlocked

\* C10 witness: the read of a key of the cycle is over with the Cycle error
C10_Witness ==
    /\ CycleProgram
    /\ Idle(MAIN)
    /\ ret[MAIN].kind = "cycle"
    /\ \A k \in Queries : state[k] = NotComputed

\* the step that replaces the InProgress marker of k wakes every waiter and
\* removes the wait-for edges that point at k
Wakes(k) ==
    /\ \A u \in state[k].waiting :
          /\ blocked'[u] = <<>>
          /\ mailbox'[u] # <<>>
          /\ mailbox'[u][1].kind =
                IF mode[state[k].id] = "unwind" THEN "panic" ELSE "ok"
    /\ \A u \in Runtimes : blocked'[u] # <<>> => blocked'[u][1].key # k
    /\ state'[k].tag = "NotComputed" => mode[state[k].id] = "unwind"

\* C11: every runtime that installs InProgress eventually leaves it; the
\* step that replaces the marker, by Memoized or NotComputed, removes the
\* wait-for edges pointing at the key and sends the value to every sink
\* registered at that moment (success) or closes it (panic); so every
\* registered waiter is eventually unblocked.
C11_EveryHolderLeaves ==
    /\ \A k \in DerivedKeys :
          (state[k].tag = "InProgress") ~> (state[k].tag # "InProgress")
    /\ \A u \in Runtimes :
          (blocked[u] # <<>>) ~> (blocked[u] = <<>> /\ mailbox[u] # <<>>)
    /\ [][ \A k \in DerivedKeys :
              state[k].tag = "InProgress" /\ state'[k].tag # "InProgress" =>
                  Wakes(k) ]_vars

\* C11 witness: a runtime unwinds while another one waits for the key it has
\* in progress
C11_Witness ==
    \E k \in DerivedKeys, u \in Runtimes :
        /\ state[k].tag = "InProgress"
        /\ u \in state[k].waiting
        /\ blocked[u] # <<>>
        /\ mode[state[k].id] = "unwind"

\* the memo of slot k: the one in the slot, or while the slot is InProgress
\* the one its PanicGuard holds; none when the slot was last NotComputed
Carried(k) ==
    IF state[k].tag = "Memoized" THEN <<state[k].memo>>
    ELSE IF state[k].tag = "InProgress" /\ Guards(k) # {}
    THEN LET tj == CHOOSE g \in Guards(k) : TRUE
         IN  stack[tj[1]][tj[2]].memo
    ELSE <<>>

\* C12: the verified_at of the memo of a slot never decreases from one
\* Memoized state of the slot to the next, also across an InProgress
\* interval that ends by success or by panic, unless the slot was
\* NotComputed in between.
C12_VerifiedAtMonotonic ==
    [][ \A k \in DerivedKeys :
            Carried(k) # <<>> /\ Carried(k)' # <<>> =>
                Carried(k)'[1].verified_at >= Carried(k)[1].verified_at ]_vars

\* C12 witness: a read that found an older memo is about to replace its
\* marker by a memo verified in the current revision
C12_Witness ==
    \E t \in Runtimes :
        /\ At(t, "read", "overwrite")
        /\ state[Top(t).key].tag = "InProgress"
        /\ Top(t).memo[1].verified_at = revision
        /\ Top(t).memo[1].changed_at < revision
        /\ Top(t).acc.deps = <<>>

\* slot k holds a memo with a value and Untracked inputs
Volatile(k) ==
    /\ state[k].tag = "Memoized"
    /\ state[k].memo.inputs.tag = "Untracked"
    /\ state[k].memo.value # <<>>

\* a step of evict or sweep: nothing but the slots changes
OnlyState ==
    UNCHANGED <<revision, last_changed, input, lock, stack, ret, mode, mailbox,
                blocked, prog, harness, reads, failed>>

\* C13: evict never clears the value of a Memoized slot whose inputs are
\* Untracked: evict leaves such a slot as it is, value, stamps and inputs,
\* and the only step from outside a read that changes it is a sweep that
\* finds it outdated.
C13_VolatilePinned ==
    [][ \A k \in DerivedKeys :
            Volatile(k) =>
                /\ evict(state[k]) = state[k]
                /\ OnlyState /\ state'[k] # state[k] =>
                      state[k].memo.verified_at < revision ]_vars

\* C13 witness: a volatile memo has kept its value in a revision in which
\* the value of another memo of the same revision was evicted
C13_Witness ==
    \E k \in DerivedKeys, j \in DerivedKeys :
        /\ Volatile(k)
        /\ lock[k] = Unlocked
        /\ state[k].memo.verified_at = revision
        /\ state[j].tag = "Memoized"
        /\ state[j].memo.value = <<>>
        /\ state[j].memo.verified_at = revision
        /\ Idle(MAIN)

\* the query function of k makes an untracked read
VolatileQuery(k) == InSeq("*", prog[k])

\* runtime t takes the step that starts the query function
StartsToExecute(t) ==
    /\ mode[t] = "run"
    /\ stack[t] # <<>>
    /\ Top(t).fn = "read"
    /\ Top(t).pc \in {"validate", "validate_iter", "validate_ret"}
    /\ Len(stack'[t]) = Len(stack[t])
    /\ TopAfter(t).pc = "exec"

\* C14: within one revision the query function of a volatile key executes
\* at most once: it is not started again once a read of the key has
\* returned, and every read of the key returns the one value of that
\* execution, whatever the LRU list evicted in between.
C14_VolatileExecutesOnce ==
    [][ \A k \in Queries :
            VolatileQuery(k) =>
                /\ Cardinality(reads[k]) <= 1
                /\ \A t \in Runtimes :
                      StartsToExecute(t) /\ Top(t).key = k => reads[k] = {} ]_vars

\* C14 witness: a volatile key that was read in this revision is read
\* again after the value of another key was evicted
C14_Witness ==
    \E k \in Queries, j \in Queries :
        /\ VolatileQuery(k)
        /\ reads[k] # {}
        /\ At(MAIN, "read", "probe")
        /\ Top(MAIN).key = k
        /\ state[j].tag = "Memoized"
        /\ state[j].memo.value = <<>>
        /\ state[j].memo.verified_at = revision

\* the reads the volatile test has made so far
VolatileReads == IF VolatileTest THEN 1..Len(observed) ELSE {}

\* C15 as stated: reading the keys of a volatile query pass after pass within
\* one revision, with the LRU at work, the n-th read (counted from 0) returns n
C15_NthReadReturnsN ==
    \A n \in VolatileReads : observed[n].value = n - 1

\* C15 amended: reading the keys of a volatile query pass after pass within
\* one revision, with the LRU at work, every pass returns the values of the
\* first pass: the n-th read (counted from 0) returns n modulo the number of
\* keys, and the counter has been incremented once per key read
C15_EveryPassReturnsTheFirst ==
    /\ \A n \in VolatileReads : observed[n].value = (n - 1) % Len(KeyOrder)
    /\ VolatileTest /\ BetweenFetches =>
            counter = IF Len(observed) < Len(KeyOrder) THEN Len(observed)
                      ELSE Len(KeyOrder)

\* the third pass is over, with fewer keys on the LRU list than were read
C15_Witness ==
    /\ VolatileTest
    /\ Len(observed) = LruPasses * Len(KeyOrder)
    /\ Len(lru) < Len(KeyOrder)
    /\ observed[Len(observed)].value = Len(KeyOrder) - 1

\* the slots whose memo holds a value
Held == {k \in DerivedKeys : state[k].tag = "Memoized" /\ state[k].memo.value # <<>>}

\* the keys read since the capacity was set
KeysRead == {observed[n].key : n \in 1..Len(observed)}

\* the tracked test has finished a fetch and started no other
AfterReads == ~VolatileTest /\ BetweenFetches

\* C16: for a tracked query with LRU capacity c > 0, after any sequence of
\* reads at most c slots hold a value, and exactly c once more than c distinct
\* keys have been read; with capacity 0 no read takes a value away and every
\* key read holds its value; a change of the capacity leaves the held values
\* as they are
C16_LruCapsPresence ==
    /\ [](AfterReads /\ cap > 0 => Cardinality(Held) <= cap)
    /\ [](AfterReads /\ cap > 0 /\ Cardinality(KeysRead) > cap =>
            Cardinality(Held) = cap)
    /\ [](AfterReads /\ cap = 0 => KeysRead \subseteq Held)
    /\ [][~VolatileTest /\ cap = 0 => Held \subseteq Held']_vars
    /\ [][cap' # cap => Held' = Held]_vars

\* the capacity was raised and more keys than it allows were read since
C16_Witness ==
    /\ AfterReads
    /\ cap = LruCap + 1
    /\ Cardinality(KeysRead) > cap
    /\ Cardinality(Held) = cap

\* the read of runtime t is about to validate a memo that has a value, was
\* verified before this revision, and whose durability saw no change since
ShortCircuits(t) ==
    /\ At(t, "read", "validate")
    /\ Top(t).memo # <<>>
    /\ Top(t).memo[1].value # <<>>
    /\ Top(t).memo[1].verified_at < revision
    /\ last_changed_revision(Top(t).memo[1].durability) <= Top(t).memo[1].verified_at

\* the frame of a read that has only the memo m, verified now, left to memoize
\* and its value, stamped with the changed_at of m, left to return
Bumped(f, m) ==
    [f EXCEPT !.pc = "proceed",
              !.events = Append(@, "DidValidateMemoizedValue"),
              !.memo = <<[m EXCEPT !.verified_at = revision]>>,
              !.out = <<StampedValue(m.value[1], m.durability, m.changed_at)>>]

\* C17: a read that finds a memo with a value, verified_at < revision_now and
\* last_changed_revision(durability) <= verified_at asks no input and does not
\* execute: its next step goes straight to proceed with verified_at set to
\* revision_now, and proceed memoizes that memo and returns the old value
\* stamped with the old changed_at
C17_DurabilityShortCircuit ==
    [][\A t \in Runtimes :
          /\ ShortCircuits(t) /\ stack'[t] # stack[t] =>
                stack'[t] = SetTop(t, Bumped(Top(t), Top(t).memo[1]))[t]
          /\ Leaves(t, "proceed") =>
                stack'[t] = SetTop(t, [Top(t) EXCEPT !.pc = "overwrite"])[t]
          /\ Leaves(t, "overwrite") =>
                /\ state'[Top(t).key] = Memoized(Top(t).memo[1])
                /\ Hands(t, Top(t).out[1])]_vars

\* a read is about to validate a memo of high durability whose tracked input
\* it will not ask
C17_Witness ==
    \E t \in Runtimes :
        /\ ShortCircuits(t)
        /\ Top(t).memo[1].durability > LOW
        /\ Top(t).memo[1].inputs.tag = "Tracked"
        /\ Top(t).memo[1].inputs.inputs # <<>>

\* the memos the slots hold, memoized or set aside during a read
Kept ==
    {state[k].memo : k \in {j \in DerivedKeys : state[j].tag = "Memoized"}}
    \cup UNION {{stack[t][j].memo[1] :
                    j \in {i \in 1..Len(stack[t]) :
                              stack[t][i].fn = "read" /\ stack[t][i].memo # <<>>}} :
                t \in Runtimes}

\* the read of runtime t is about to validate a memo with Untracked inputs
\* that was verified before this revision
RevisitsUntracked(t) ==
    /\ At(t, "read", "validate")
    /\ Top(t).memo # <<>>
    /\ Top(t).memo[1].inputs.tag = "Untracked"
    /\ Top(t).memo[1].verified_at < revision

\* C18: a read at a revision later than the verified_at of a memo with
\* Untracked inputs executes the query function again, and no such memo
\* passes the durability test at a later revision
C18_UntrackedReexecutes ==
    /\ [](\A m \in Kept :
            m.inputs.tag = "Untracked" /\ m.verified_at < revision =>
                last_changed_revision(m.durability) > m.verified_at)
    /\ [][\A t \in Runtimes :
            RevisitsUntracked(t) /\ stack'[t] # stack[t] =>
                stack'[t] = SetTop(t, [Top(t) EXCEPT
                                !.pc = "exec", !.i = 1, !.acc = ActiveQuery])[t]]_vars

\* a read is about to validate a memo with Untracked inputs and a value that
\* an earlier revision verified
C18_Witness ==
    \E t \in Runtimes : RevisitsUntracked(t) /\ Top(t).memo[1].value # <<>>

\* dependency d has not changed since revision v: an input last set by then,
\* or a derived query verified in the current revision whose changed_at, kept
\* or backdated, is not after v
UnchangedSince(d, v) ==
    IF d \in InputKeys
    THEN input[d] # <<>> /\ input[d][1].changed_at <= v
    ELSE /\ state[d].tag = "Memoized"
         /\ state[d].memo.verified_at = revision
         /\ state[d].memo.changed_at <= v

\* memo m has a value, an earlier verified_at and tracked inputs, a derived
\* query among them, none of which has changed since m was verified
OnlyBackdated(m) ==
    /\ m.value # <<>>
    /\ m.verified_at < revision
    /\ m.inputs.tag = "Tracked"
    /\ \E n \in 1..Len(m.inputs.inputs) : m.inputs.inputs[n] \in DerivedKeys
    /\ \A n \in 1..Len(m.inputs.inputs) :
            UnchangedSince(m.inputs.inputs[n], m.verified_at)

\* the read frame f is validating its old memo
Validating(f) ==
    /\ f.fn = "read"
    /\ f.pc \in {"validate", "validate_iter", "validate_ret"}
    /\ f.memo # <<>>

\* C19: when the queries a memo of A depends on have been verified in the
\* current revision with a changed_at not after the verified_at of that memo
\* (B re-executed to an equal value and backdated), the read of A that then
\* validates the memo does not execute the query function of A: every step of
\* the validation goes on validating or ends in proceed with the memo verified
\* now and the old value stamped with the old changed_at
C19_BackdatingSparesDependents ==
    [][\A t \in Runtimes :
          /\ mode[t] = "run"
          /\ stack[t] # <<>>
          /\ Validating(Top(t))
          /\ OnlyBackdated(Top(t).memo[1])
          /\ stack'[t] # stack[t]
          /\ Len(stack'[t]) = Len(stack[t])
          => \/ Validating(TopAfter(t)) /\ TopAfter(t).memo = Top(t).memo
             \/ stack'[t] = SetTop(t, Bumped(Top(t), Top(t).memo[1]))[t]]_vars

\* every durability saw a change in this revision, B was executed again and
\* backdated, and the read of A has validated its memo and is about to return
\* the old changed_at
C19_Witness ==
    \E t \in Runtimes :
        /\ At(t, "read", "proceed")
        /\ Top(t).key = "A"
        /\ Top(t).memo[1].inputs = Tracked(<<"B">>)
        /\ Top(t).memo[1].verified_at = revision
        /\ Top(t).out[1].changed_at = Top(t).memo[1].changed_at
        /\ Top(t).acc = ActiveQuery
        /\ \A d \in Durabilities : last_changed_revision(d) = revision
        /\ UnchangedSince("B", Top(t).memo[1].changed_at)
        /\ state["B"].memo.inputs = Tracked(<<"y">>)
        /\ input["y"][1].changed_at = revision

\* the memo is one a sweep with discard_if leaves alone: verified in the
\* current revision and either the sweep discards only what is outdated or
\* the inputs are Untracked
Spared(memo, discard_if) ==
    /\ memo.verified_at = revision
    /\ discard_if = "Outdated" \/ memo.inputs.tag = "Untracked"

\* C20: a sweep of a Memoized slot leaves a memo verified in the current
\* revision unchanged when discard_if = Outdated, and also when discard_if =
\* Always and the inputs are Untracked; in every other case
\* discard_what = Values clears the value and keeps verified_at, changed_at,
\* durability and inputs, and discard_what = Everything leaves NotComputed
C20_SweepMemoized ==
    [][\A k \in DerivedKeys : \A strategy \in Strategies :
          Sweep(k, strategy) /\ state[k].tag = "Memoized" =>
              IF Spared(state[k].memo, strategy.discard_if)
              THEN state'[k] = state[k]
              ELSE IF strategy.discard_what = "Values"
              THEN /\ state'[k].tag = "Memoized"
                   /\ state'[k].memo.value = <<>>
                   /\ state'[k].memo.verified_at = state[k].memo.verified_at
                   /\ state'[k].memo.changed_at = state[k].memo.changed_at
                   /\ state'[k].memo.durability = state[k].memo.durability
                   /\ state'[k].memo.inputs = state[k].memo.inputs
              ELSE state'[k] = NotComputed]_vars

\* a sweep has cleared the value of an outdated memo with Untracked inputs,
\* which no eviction clears, and kept its stamps
C20_Witness ==
    \E k \in DerivedKeys :
        /\ state[k].tag = "Memoized"
        /\ state[k].memo.value = <<>>
        /\ state[k].memo.inputs.tag = "Untracked"
        /\ state[k].memo.changed_at <= state[k].memo.verified_at
        /\ state[k].memo.verified_at < revision

\* the runtime that installed the InProgress marker of k takes the step of
\* its guard that replaces the marker: proceed, or Drop while unwinding
Completes(k) ==
    LET t == state[k].id
    IN  /\ stack[t] # <<>>
        /\ Top(t).fn = "read"
        /\ Top(t).key = k
        /\ \/ mode[t] = "run" /\ Top(t).pc = "overwrite"
           \/ mode[t] = "unwind" /\ Top(t).pc = "drop"
        /\ stack'[t] # stack[t]

\* another runtime that probes k adds its sink to the waiters of the marker
Registers(k) ==
    \E u \in Runtimes \ {state[k].id} :
        /\ stack[u] # <<>>
        /\ Top(u).key = k
        /\ u \notin state[k].waiting
        /\ state'[k] = [state[k] EXCEPT !.waiting = @ \cup {u}]

\* C21 as stated: nothing but the guard of the runtime that installed it
\* changes an InProgress state, neither its owner id nor its waiters, and the
\* guard finds its own marker when it completes
C21_MarkerUntouched ==
    /\ []("overwrite_placeholder" \notin failed)
    /\ [][\A k \in DerivedKeys :
            state[k].tag = "InProgress" /\ state'[k] # state[k] => Completes(k)]_vars

\* C21 amended: an InProgress marker is replaced only by the guard of the
\* runtime that installed it; sweep, evict and the write-back of
\* maybe_changed_since leave it unchanged, a read or maybe_changed_since of
\* another runtime only adds that runtime to its waiters, and the guard finds
\* its own marker when it completes
C21_OnlyTheGuardReplaces ==
    /\ []("overwrite_placeholder" \notin failed)
    /\ [][\A k \in DerivedKeys :
            state[k].tag = "InProgress" /\ state'[k] # state[k] =>
                Completes(k) \/ Registers(k)]_vars

\* the owner of a marker with a waiter is about to replace it
C21_Witness ==
    \E k \in DerivedKeys :
        /\ state[k].tag = "InProgress"
        /\ state[k].waiting # {}
        /\ At(state[k].id, "read", "overwrite")
        /\ Top(state[k].id).key = k

\* C22: evict on a Memoized slot whose inputs are Tracked or NoInputs clears
\* the value and nothing else: the slot stays Memoized with the same
\* verified_at, changed_at, durability and inputs; evict on a NotComputed or
\* InProgress slot changes nothing
C22_EvictClearsOnlyTheValue ==
    [][\A k \in DerivedKeys :
          Evict(k) =>
              IF state[k].tag = "Memoized"
              THEN state[k].memo.inputs.tag \in {"Tracked", "NoInputs"} =>
                      /\ state'[k].tag = "Memoized"
                      /\ state'[k].memo.value = <<>>
                      /\ state'[k].memo.verified_at = state[k].memo.verified_at
                      /\ state'[k].memo.changed_at = state[k].memo.changed_at
                      /\ state'[k].memo.durability = state[k].memo.durability
                      /\ state'[k].memo.inputs = state[k].memo.inputs
              ELSE state'[k] = state[k]]_vars

\* a memo without inputs has lost its value and kept its stamps while
\* another slot, free to be evicted, is in progress
C22_Witness ==
    \E k, j \in DerivedKeys :
        /\ state[k].tag = "Memoized"
        /\ state[k].memo.value = <<>>
        /\ state[k].memo.inputs.tag = "NoInputs"
        /\ state[k].memo.changed_at < state[k].memo.verified_at
        /\ state[j].tag = "InProgress"
        /\ lock[j] = Unlocked

\* the strategies Slot::sweep has no arm for
IllegalStrategies == AllStrategies \ Strategies

\* C23: a sweep with an illegal strategy (discard_if = Never or discard_what =
\* Nothing) ends in the fatal error whatever the slot holds: in every state
\* in which sweep can take the lock, every illegal strategy reaches the
\* rejection
C23_IllegalStrategyRejected ==
    \A k \in DerivedKeys : \A strategy \in IllegalStrategies :
        lock[k] = Unlocked => sweep_unreachable(state[k], revision, strategy)

\* a sweep with discard_what = Nothing would return without a word from a
\* memo verified in the current revision, and another has been rejected
C23_Witness ==
    \E k \in DerivedKeys :
        /\ lock[k] = Unlocked
        /\ state[k].tag = "Memoized"
        /\ state[k].memo.verified_at = revision
        /\ ~sweep_unreachable(state[k], revision,
                              [discard_if |-> "Outdated", discard_what |-> "Nothing"])
        /\ "unreachable" \in failed

\* slot k holds a value verified in the current revision
UpToDateState(k) ==
    /\ state[k].tag = "Memoized"
    /\ state[k].memo.value # <<>>
    /\ state[k].memo.verified_at = revision

\* slot k is NotComputed, or Memoized without a value or with an earlier
\* verified_at
AbsentState(k) ==
    \/ state[k].tag = "NotComputed"
    \/ /\ state[k].tag = "Memoized"
       /\ state[k].memo.value = <<>> \/ state[k].memo.verified_at < revision

\* the classification of probe, as runtime t acts on it in read (under the
\* shared lock) and in read_upgrade (under the exclusive lock), and the value
\* a peer delivers
Classifies(t) ==
    LET k == Top(t).key
        m == state[k].memo
    IN  /\ Leaves(t, "probe") \/ Leaves(t, "probe_w") =>
                /\ UpToDateState(k) =>
                        /\ Hands(t, StampedValue(m.value[1], m.durability, m.changed_at))
                        /\ state' = state
                /\ state[k].tag = "InProgress" => state'[k].tag = "InProgress"
                /\ stack'[t] # <<>> /\ Len(stack'[t]) = Len(stack[t]) =>
                        TopAfter(t).pc \in {"upgrade", "validate", "recv"}
        /\ Leaves(t, "probe") /\ AbsentState(k) =>
                stack'[t] = SetTop(t, [Top(t) EXCEPT !.pc = "upgrade"])[t]
        /\ Leaves(t, "probe_w") /\ AbsentState(k) =>
                /\ TopAfter(t).pc = "validate"
                /\ state'[k] = in_progress(t)
        /\ Leaves(t, "recv") /\ mailbox[t][1].kind = "ok" =>
                /\ Hands(t, mailbox[t][1].sv)
                /\ state' = state

\* every state that is not InProgress is up to date or absent
Classified ==
    \A k \in DerivedKeys :
        state[k].tag # "InProgress" => (UpToDateState(k) <=> ~AbsentState(k))

\* C24 as stated: probe hands out a value exactly from a Memoized state with
\* a value and verified_at = revision_now (or from a peer in progress), finds
\* NotComputed, a memo without value and an earlier verified_at stale or
\* absent, executes nothing and never changes the state
C24_ProbeClassifies ==
    /\ []Classified
    /\ [][\A t \in Runtimes :
            /\ Classifies(t)
            /\ Leaves(t, "probe") => state' = state]_vars

\* C24 amended: as stated, except that a probe that finds the slot in
\* progress in another runtime adds its sink to the waiters of that marker;
\* it changes nothing else of the state
C24_ProbeClassifiesAndRegisters ==
    /\ []Classified
    /\ [][\A t \in Runtimes :
            /\ Classifies(t)
            /\ Leaves(t, "probe") =>
                    \/ state' = state
                    \/ /\ state[Top(t).key].tag = "InProgress"
                       /\ state[Top(t).key].id # t
                       /\ state' = [state EXCEPT ![Top(t).key].waiting = @ \cup {t}]
                       /\ TopAfter(t).pc = "recv"]_vars

\* probe has found a memo verified in the current revision stale because its
\* value was evicted, while another runtime waits for a peer
C24_Witness ==
    \E t, u \in Runtimes :
        /\ At(t, "read", "upgrade")
        /\ state[Top(t).key].tag = "Memoized"
        /\ state[Top(t).key].memo.value = <<>>
        /\ state[Top(t).key].memo.verified_at = revision
        /\ At(u, "read", "recv")

\* the locks runtime t holds, shared or exclusive
Held_by(t) == {k \in DerivedKeys : t \in lock[k].w \cup lock[k].r}

\* the positions at which a call holds the lock of its slot: the probes, the
\* guard's overwrite, and the match and the write-back of maybe_changed_since
LockedPcs == {"probe", "probe_w", "overwrite", "drop", "m_probe", "m_write_back"}

\* the positions at which a call blocks in recv, executes the query function,
\* validates, or asks the inputs maybe_changed_since
UnlockedPcs ==
    {"recv", "m_recv", "exec", "exec_ret", "validate", "validate_iter",
     "validate_ret", "m_iter", "m_iter_ret", "m_upgrade_ret"}

\* C25: a runtime holds the lock of a slot only in its innermost call and
\* only at the probes, the overwrite and the write-back; a runtime that is
\* blocked in recv, executes the query function or asks an input
\* maybe_changed_since holds no lock at all
C25_NoLockWhileWaitingOrComputing ==
    \A t \in Runtimes :
        /\ Held_by(t) # {} =>
                /\ stack[t] # <<>>
                /\ Held_by(t) = {Top(t).key}
                /\ Top(t).pc \in LockedPcs
        /\ stack[t] # <<>> /\ Top(t).pc \in UnlockedPcs => Held_by(t) = {}

\* one runtime is blocked in recv of read and another in the query function
\* it was asked to run by maybe_changed_since
C25_Witness ==
    \E t, u \in Runtimes :
        /\ At(t, "read", "recv")
        /\ At(u, "read", "exec")
        /\ Top(u).via = "mcs"
        /\ state[Top(t).key].tag = "InProgress"
        /\ lock[Top(t).key] = Unlocked

\* runtime t takes the step of the write-back of maybe_changed_since
WritesBack(t) ==
    /\ At(t, "mcs", "m_write_back")
    /\ stack'[t] # stack[t]

\* C26: the write-back of maybe_changed_since, under the exclusive lock,
\* finds the slot Memoized with verified_at < revision_now and sets
\* verified_at to revision_now when no input changed or replaces the state
\* by NotComputed when some input changed; it leaves an InProgress or
\* NotComputed state and a memo verified in the current revision unchanged;
\* it returns what the walk found
C26_WriteBack ==
    [][\A t \in Runtimes :
          WritesBack(t) =>
              LET k == Top(t).key
              IN  /\ t \in lock[k].w
                  /\ stack'[t] = SubSeq(stack[t], 1, Len(stack[t]) - 1)
                  /\ ret'[t] = RetBool(Top(t).mc)
                  /\ IF state[k].tag = "Memoized" /\ state[k].memo.verified_at < revision
                     THEN IF Top(t).mc
                          THEN state'[k] = NotComputed
                          ELSE state'[k] =
                                  Memoized([state[k].memo EXCEPT !.verified_at = revision])
                     ELSE state'[k] = state[k]
                  /\ \A j \in DerivedKeys \ {k} : state'[j] = state[j]]_vars

\* the write-back is about to find that another runtime took the slot in
\* progress while the inputs were walked
C26_Witness ==
    \E t \in Runtimes :
        /\ At(t, "mcs", "m_write_back")
        /\ state[Top(t).key].tag = "InProgress"

\* the read of runtime t walks, or is about to walk, the tracked inputs of
\* its old memo
Walks(t) ==
    /\ mode[t] = "run"
    /\ stack[t] # <<>>
    /\ Validating(Top(t))
    /\ stack'[t] # stack[t]
    /\ \/ Top(t).pc \in {"validate_iter", "validate_ret"}
       \/ /\ Top(t).pc = "validate"
          /\ Top(t).memo[1].value # <<>>
          /\ Top(t).memo[1].verified_at < revision
          /\ last_changed_revision(Top(t).memo[1].durability) > Top(t).memo[1].verified_at
          /\ Top(t).memo[1].inputs.tag = "Tracked"

\* one step of the walk of frame f over the inputs of its old memo m: the
\* walk starts at the first input; the i-th input is asked
\* maybe_changed_since(m.verified_at); an answer "changed" ends the walk
\* and the query function is executed; after the last input the memo is
\* verified, which the event DidValidateMemoizedValue reports
WalkStep(t, f, m) ==
    LET deps == m.inputs.inputs
        asked == [f EXCEPT !.pc = "validate_ret"]
        next == [f EXCEPT !.pc = "validate_iter", !.i = f.i + 1]
        execute == [f EXCEPT !.pc = "exec", !.i = 1, !.acc = ActiveQuery]
    IN  CASE f.pc = "validate" ->
                stack'[t] = SetTop(t, [f EXCEPT !.pc = "validate_iter", !.i = 1])[t]
          [] f.pc = "validate_iter" /\ f.i > Len(deps) ->
                stack'[t] = SetTop(t, Bumped(f, m))[t]
          [] f.pc = "validate_iter" /\ f.i <= Len(deps) ->
                IF deps[f.i] \in InputKeys
                THEN stack'[t] =
                        SetTop(t, IF input[deps[f.i]][1].changed_at > m.verified_at
                                  THEN execute ELSE next)[t]
                ELSE stack'[t] =
                        Push(t, asked, Frame("mcs", deps[f.i], "m_start", "mcs",
                                             m.verified_at))[t]
          [] f.pc = "validate_ret" ->
                stack'[t] = SetTop(t, IF ret[t].b THEN execute ELSE next)[t]

\* C27: the validation of a memo with Tracked inputs asks the inputs
\* maybe_changed_since(memo.verified_at) one after the other in the order of
\* the memo and stops at the first that answers true; when none does, the
\* query function is not executed, the event DidValidateMemoizedValue is
\* emitted, and the memo that is stored differs from the old one in
\* verified_at = revision_now only
C27_ValidationWalk ==
    [][\A t \in Runtimes :
          /\ Walks(t) => WalkStep(t, Top(t), Top(t).memo[1])
          /\ Leaves(t, "overwrite") =>
                state'[Top(t).key] = Memoized(Top(t).memo[1])]_vars

\* the walk over two inputs has ended, the event was emitted and the memo
\* with today's verified_at and the old changed_at is about to be stored
C27_Witness ==
    \E t \in Runtimes :
        /\ At(t, "read", "overwrite")
        /\ Top(t).events = <<"DidValidateMemoizedValue">>
        /\ Len(Top(t).memo[1].inputs.inputs) = 2
        /\ Top(t).memo[1].verified_at = revision
        /\ Top(t).memo[1].changed_at < revision
        /\ \A d \in Durabilities : last_changed_revision(d) = revision

\* the old memo has a value equal to the result and a higher durability
LessDurable(old_memo, result) ==
    /\ old_memo # <<>>
    /\ old_memo[1].value # <<>>
    /\ old_memo[1].value[1] = result.value
    /\ result.durability < old_memo[1].durability

\* C28: when a re-execution ends with a value equal to the value of the old
\* memo but with a lower durability, the stamped value that is returned and
\* the memo that is stored carry the changed_at and the durability of the
\* re-execution, not those of the old memo
C28_DurabilityDecreaseShows ==
    [][\A t \in Runtimes :
          /\ Leaves(t, "exec") /\ Len(stack'[t]) = Len(stack[t])
             /\ TopAfter(t).pc = "proceed" /\ LessDurable(Top(t).memo, Top(t).acc) =>
                  /\ TopAfter(t).out[1] =
                        StampedValue(Top(t).acc.value, Top(t).acc.durability,
                                     Top(t).acc.changed_at)
                  /\ TopAfter(t).memo[1].changed_at = Top(t).acc.changed_at
                  /\ TopAfter(t).memo[1].durability = Top(t).acc.durability
          /\ Leaves(t, "overwrite") =>
                  /\ state'[Top(t).key] = Memoized(Top(t).memo[1])
                  /\ Hands(t, Top(t).out[1])]_vars

\* a re-execution has read all it reads and found the old value with a
\* lower durability and a later changed_at
C28_Witness ==
    \E t \in Runtimes :
        /\ At(t, "read", "exec")
        /\ Top(t).i > Len(prog[Top(t).key])
        /\ LessDurable(Top(t).memo, Top(t).acc)
        /\ Top(t).acc.changed_at > Top(t).memo[1].changed_at

----------------------------------------------------------------------------
(* C29 *)

\* the execution of the top frame of t read something of `kind`
\* ("Untracked": a volatile read; "NoInputs": nothing; "Tracked": the rest)
Read_by(t, kind) ==
    CASE kind = "Untracked" -> ~Top(t).acc.tracked
      [] kind = "NoInputs" -> Top(t).acc.tracked /\ Top(t).acc.deps = <<>>
      [] kind = "Tracked" -> Top(t).acc.tracked /\ Top(t).acc.deps # <<>>

----------------------------------------------------------------------------
(* C30 *)

\* C30: the assertion old_memo.changed_at <= result.changed_at of read_upgrade
\* never fails: whenever a re-execution yields the old memoized value with a
\* durability that is not lower than the old one, also after an old memo with
\* Untracked inputs and after dependencies were evicted or swept and
\* recomputed, its changed_at is not smaller than that of the old memo
C30_BackdatingAssertionHolds ==
    /\ []("backdate" \notin failed)
    /\ [][\A t \in Runtimes :
          Leaves(t, "exec") /\ Top(t).i > Len(prog[Top(t).key])
             /\ Backdates(Top(t).memo, Top(t).acc) =>
                  /\ Top(t).memo[1].changed_at <= Top(t).acc.changed_at
                  /\ TopAfter(t).pc = "proceed"
                  /\ mode'[t] = "run"]_vars

\* the re-execution of a query whose old memo has Untracked inputs has read
\* all it reads and found the old value with a later changed_at
C30_Witness ==
    \E t \in Runtimes :
        /\ At(t, "read", "exec")
        /\ Top(t).i > Len(prog[Top(t).key])
        /\ Backdates(Top(t).memo, Top(t).acc)
        /\ Top(t).memo[1].changed_at < Top(t).acc.changed_at
        /\ Top(t).memo[1].inputs = Untracked

----------------------------------------------------------------------------
(* C31 *)

\* runtime t is blocked in recv (of probe or of maybe_changed_since)
InRecv(t) ==
    /\ stack[t] # <<>>
    /\ mode[t] = "run"
    /\ Top(t).pc \in {"recv", "m_recv"}

\* runtime t goes and blocks in recv
EntersRecv(t) ==
    /\ ~InRecv(t)
    /\ stack'[t] # <<>>
    /\ mode'[t] = "run"
    /\ TopAfter(t).pc \in {"recv", "m_recv"}

\* C31: no wake-up is lost. A reader that observes InProgress adds its sink
\* to the waiters while it still holds the lock of the state, and the step
\* that replaces the marker holds the lock exclusively, so it cannot fall
\* between the observation and the registration; in every reachable state a
\* runtime blocked in recv on a slot has its sink in the waiters of the
\* InProgress state of that slot, or was sent a value or had its sink dropped
C31_NoLostWakeup ==
    /\ [](\A t \in Runtimes :
            InRecv(t) =>
                \/ /\ state[Top(t).key].tag = "InProgress"
                   /\ t \in state[Top(t).key].waiting
                   /\ mailbox[t] = <<>>
                \/ mailbox[t] # <<>>)
    /\ [][/\ \A t \in Runtimes :
              EntersRecv(t) =>
                  LET k == Top(t).key
                  IN  /\ t \in lock[k].r \cup lock[k].w
                      /\ state[k].tag = "InProgress"
                      /\ t \notin state[k].waiting
                      /\ state'[k] = [state[k] EXCEPT !.waiting = @ \cup {t}]
                      /\ mailbox'[t] = <<>>
          /\ \A k \in DerivedKeys :
              state[k].tag = "InProgress" /\ state'[k].tag # "InProgress" =>
                  /\ lock[k].w = {state[k].id}
                  /\ lock[k].r = {}
                  /\ \A u \in state[k].waiting : mailbox'[u] # <<>>]_vars

\* a runtime is still in recv after the owner of the marker it registered
\* with has completed and sent it the value
C31_Witness ==
    \E t \in Runtimes :
        /\ InRecv(t)
        /\ state[Top(t).key].tag = "Memoized"
        /\ mailbox[t] # <<>>
        /\ mailbox[t][1].kind = "ok"

====
